---------------------------- MODULE Spec2Model ----------------------------
(***************************************************************************)
(* A model of salt/transport/zeromq.py: the serialized REQ client          *)
(* (RequestClient), the subscriber (PublishClient), the publisher daemon   *)
(* with its producer (PublishServer), the request server                   *)
(* (RequestServer): its broker process and the request loop of a worker,   *)
(* the socket monitor (ZeroMQSocketMonitor) and _get_master_uri.           *)
(*                                                                         *)
(* Every component is a group of variables named after the fields of its   *)
(* class.  A specification runs one component (or one pipeline of them)    *)
(* and leaves the other groups at their initial value.                     *)
(*                                                                         *)
(* The cooperative scheduler (asyncio) runs one task at a time and         *)
(* switches only at an await that is not already done: an action is the    *)
(* code between two such awaits.                                           *)
(***************************************************************************)
EXTENDS Integers, Sequences, FiniteSets, TLC

(***************************************************************************)
(* Bounds of the model.                                                    *)
(***************************************************************************)
\* concurrent RequestClient.send invocations
NCalls == 2
\* REQ socket / context pairs one RequestClient may create in a run
MaxSockets == 3
\* consumer tasks one PublishClient may spawn in a run
MaxConsumers == 2
\* frames of a message list handed to _decode_messages
MaxFrames == 3
\* PUSH socket / context pairs one producer may create in a run
MaxPush == 2
\* payloads one producer may publish in a run
MaxPublish == 2
\* publish_payload calls made with a chosen topic list in a run
MaxCalls == 1
\* messages that reach the SUB socket of a PublishClient with consumers
MaxArrive == 2
\* SIGINT / SIGTERM deliveries to the broker process in a run
MaxSignals == 2
\* requests the clients of a RequestServer send in a run
MaxReq == 2
\* events the library puts on a monitor socket before the terminal one
MaxEvents == 2
\* EINTR errors of the queue device in a run
MaxEintr == 2
\* calls of ZeroMQSocketMonitor.stop by the owner of a monitor
MaxStops == 2

Calls == 1 .. NCalls
SockIds == 1 .. MaxSockets
\* Python's None for an object reference
None == 0

(***************************************************************************)
(* Payload serialization is an external collaborator (salt.payload): it is *)
(* modelled as a tagging that loads undoes.                                *)
(***************************************************************************)
dumps(m) == <<"ser", m>>
loads(b) == b[2]

\* the load of the c-th send invocation; distinct calls send distinct loads
Load(c) == <<"load", c>>
\* the master's answer to a request (the worker's message_handler)
Handler(load) == <<"reply", load>>
\* what the server puts on the wire for the request bytes it received
ServerReply(req) == dumps(Handler(loads(req)))

(***************************************************************************)
(* RequestClient                                                           *)
(***************************************************************************)
VARIABLES
    rc_socket,      \* self.socket: None or the id of the current REQ socket
    rc_context,     \* self.context: None or the id of the current context
    rc_closing,     \* self._closing
    rc_locked,      \* self.sending: asyncio.Lock._locked
    rc_waiters,     \* self.sending: asyncio.Lock._waiters (calls, FIFO)
    rc_woken,       \* the head waiter's future has been given its result
    rc_nsock,       \* sockets created so far (ids 1..rc_nsock)
    rc_nctx,        \* contexts created so far (ids 1..rc_nctx)
    rc_open,        \* ids of the sockets not closed
    rc_live,        \* ids of the contexts not terminated
    rc_fsm,         \* per socket: REQ state machine, "idle" or "await"
    rc_wreq,        \* per socket: requests sent and not yet answered
    rc_wrep,        \* per socket: replies delivered and not yet received
    rc_pc,          \* per call: where the send invocation stands
    rc_fut,         \* per call: state of its pending socket.recv() future
    rc_futsock,     \* per call: socket its recv future is registered on
    rc_ret,         \* per call: bytes its recv future resolved to
    rc_err,         \* per call: exception travelling from _send_recv to send
    rc_sent,        \* per call: <<socket, bytes>> of each socket.send done
    rc_tries,       \* per call: number of socket.send calls made
    rc_reconn,      \* per call: runs of the except-ZMQError handler
    rc_prior,       \* per call: the calls that had raised the timeout error
                    \* when this call's send started
    rc_res          \* per call: outcome of send as the caller sees it

rcVars == <<rc_socket, rc_context, rc_closing, rc_locked, rc_waiters,
            rc_woken, rc_nsock, rc_nctx, rc_open, rc_live, rc_fsm, rc_wreq, rc_wrep,
            rc_pc, rc_fut, rc_futsock, rc_ret, rc_err, rc_sent, rc_tries,
            rc_reconn, rc_prior, rc_res>>

(***************************************************************************)
(* PublishClient (the subscriber), its SUB socket and its consumer tasks   *)
(***************************************************************************)
VARIABLES
    sub,            \* the PublishClient object: its fields, and the state of
                    \* the socket, context and monitor they refer to
    cons,           \* per consumer task spawned by on_recv: its run flag,
                    \* its callback, where it stands in consume and the
                    \* callback exceptions it has logged
    sub_queue,      \* frames received by the SUB socket and not yet read
    sub_inlog,      \* every message the SUB socket has accepted, in order
    sub_delivered,  \* every callback invocation, in order
    sub_decoded,    \* the last _decode_messages call and its outcome
    closelog        \* per object: the consecutive close() calls made on it
                    \* and the library calls the latest of them issued

subVars == <<sub, cons, sub_queue, sub_inlog, sub_delivered, sub_decoded,
             closelog>>

(***************************************************************************)
(* PublishServer: the producer's copy of the object, the daemon's copy,    *)
(* and the sockets between them                                            *)
(***************************************************************************)
VARIABLES
    ps_opts,        \* self.opts: zmq_filtering, order_masters
    prod,           \* producer copy: ctx, sock (PUSH side)
    push,           \* the PUSH sockets and contexts connect has created
    pipe,           \* per PUSH socket: payloads sent and not yet pulled
    dmn,            \* daemon copy: daemon_context, daemon_pub_sock,
                    \* daemon_pull_sock, daemon_monitor, dpub_sock, started,
                    \* and the state of the objects they refer to
    pp,             \* the current (or last) publish_payload invocation
    ps_published,   \* every payload the producer has sent, in order
    ps_pulled,      \* every package the daemon took from the pull socket
    ps_emitted,     \* every message sent on the fan-out socket, in order
    ps_logged,      \* exceptions the daemon loop has logged
    ps_calls        \* publish_payload calls made with a chosen topic list

psVars == <<ps_opts, prod, push, pipe, dmn, pp, ps_published, ps_pulled,
            ps_emitted, ps_logged, ps_calls>>

(***************************************************************************)
(* A task of the application that calls PublishClient.recv itself          *)
(***************************************************************************)
VARIABLES
    rv              \* the current (or last) recv(timeout) invocation

recvVars == <<rv>>

(***************************************************************************)
(* RequestServer: the broker process and a worker                          *)
(***************************************************************************)
VARIABLES
    brk,            \* the broker process
    dev,            \* the messages between clients, broker and workers
    wrk,            \* the worker
    rs_log          \* what the worker has received, handled and replied

rsVars == <<brk, dev, wrk, rs_log>>

(***************************************************************************)
(* The utilities of the module: a ZeroMQSocketMonitor                      *)
(***************************************************************************)
VARIABLES
    mon             \* one ZeroMQSocketMonitor: _socket, _monitor_socket,
                    \* _running, its loop, and the monitor socket's events

monVars == <<mon>>

VARIABLES
    uri             \* the last call of _get_master_uri: its arguments, the
                    \* versions of the library, and what it returned

uriVars == <<uri>>

utilVars == <<monVars, uriVars>>

vars == <<rcVars, subVars, psVars, recvVars, rsVars, utilVars>>

NoRes == [kind |-> "none", val |-> None]

\* RequestClient.__init__
RCInit ==
    /\ rc_socket = None
    /\ rc_context = None
    /\ rc_closing = FALSE
    /\ rc_locked = FALSE
    /\ rc_waiters = <<>>
    /\ rc_woken = FALSE
    /\ rc_nsock = 0
    /\ rc_nctx = 0
    /\ rc_open = {}
    /\ rc_live = {}
    /\ rc_fsm = [s \in SockIds |-> "idle"]
    /\ rc_wreq = [s \in SockIds |-> <<>>]
    /\ rc_wrep = [s \in SockIds |-> <<>>]
    /\ rc_pc = [c \in Calls |-> "idle"]
    /\ rc_fut = [c \in Calls |-> "none"]
    /\ rc_futsock = [c \in Calls |-> None]
    /\ rc_ret = [c \in Calls |-> None]
    /\ rc_err = [c \in Calls |-> "none"]
    /\ rc_sent = [c \in Calls |-> <<>>]
    /\ rc_tries = [c \in Calls |-> 0]
    /\ rc_reconn = [c \in Calls |-> 0]
    /\ rc_prior = [c \in Calls |-> {}]
    /\ rc_res = [c \in Calls |-> NoRes]

(***************************************************************************)
(* The part of the state that close, connect and socket.send read and      *)
(* write, as one record, so that a handler that calls them in a row        *)
(* (close; connect; send) is the composition of their effects.             *)
(***************************************************************************)
RCState ==
    [socket |-> rc_socket, context |-> rc_context, closing |-> rc_closing,
     nsock |-> rc_nsock, nctx |-> rc_nctx, open |-> rc_open, live |-> rc_live,
     fsm |-> rc_fsm, wreq |-> rc_wreq, wrep |-> rc_wrep, fut |-> rc_fut]

RCCommit(S) ==
    /\ rc_socket' = S.socket
    /\ rc_context' = S.context
    /\ rc_closing' = S.closing
    /\ rc_nsock' = S.nsock
    /\ rc_nctx' = S.nctx
    /\ rc_open' = S.open
    /\ rc_live' = S.live
    /\ rc_fsm' = S.fsm
    /\ rc_wreq' = S.wreq
    /\ rc_wrep' = S.wrep
    /\ rc_fut' = S.fut


\* socket.close() of zmq.asyncio: the socket is closed, what it held in
\* flight is discarded and every recv future still pending on it is
\* cancelled (a future that already has its result keeps it)
SockClose(S, s) ==
    [S EXCEPT !.open = @ \ {s},
              !.fsm[s] = "idle",
              !.wreq[s] = <<>>,
              !.wrep[s] = <<>>,
              !.fut = [c \in Calls |->
                         IF S.fut[c] = "pending" /\ rc_futsock[c] = s
                         THEN "cancelled" ELSE S.fut[c]]]

\* mutant of RCClose: the context is left unterminated
RCClose_ContextLeft(S) ==
    IF S.closing THEN S
    ELSE LET S1 == [S EXCEPT !.closing = TRUE]
         IN  IF S1.socket # None
             THEN [SockClose(S1, S1.socket) EXCEPT !.socket = None]
             ELSE S1

\* RequestClient.close
RCClose(S) ==
    IF S.closing THEN S
    ELSE LET S1 == [S EXCEPT !.closing = TRUE]
             S2 == IF S1.socket # None
                   THEN [SockClose(S1, S1.socket) EXCEPT !.socket = None]
                   ELSE S1
         IN  IF S2.context # None /\ S2.context \in S2.live
             THEN [S2 EXCEPT !.live = @ \ {S2.context}, !.context = None]
             ELSE S2

\* RequestClient._init_socket
RCInitSocket(S) ==
    LET S1 == IF S.socket # None
              THEN [SockClose([S EXCEPT !.nctx = @ + 1,
                                        !.live = @ \cup {S.nctx + 1},
                                        !.context = S.nctx + 1],
                              S.socket)
                      EXCEPT !.socket = None]
              ELSE S
        k  == S1.nctx + 1
        s  == S1.nsock + 1
    IN  [S1 EXCEPT !.nctx = k, !.live = @ \cup {k}, !.context = k,
                   !.nsock = s, !.open = @ \cup {s}, !.socket = s,
                   !.fsm[s] = "idle"]

\* mutant of RCConnect: the closing flag is not reset
RCConnect_KeepsClosing(S) ==
    IF S.socket = None THEN RCInitSocket(S) ELSE S

\* RequestClient.connect
RCConnect(S) ==
    IF S.socket = None
    THEN RCInitSocket([S EXCEPT !.closing = FALSE])
    ELSE S

\* connect creates a socket only while the model has ids left
CanConnect(S) == S.socket # None \/ S.nsock < MaxSockets

(***************************************************************************)
(* self.sending, an asyncio.Lock: _locked, the FIFO of waiters, and        *)
(* whether the head waiter has been woken (its future has its result but   *)
(* its task has not run yet).                                              *)
(***************************************************************************)
RCLock == [locked |-> rc_locked, waiters |-> rc_waiters, woken |-> rc_woken]

LockCommit(L) ==
    /\ rc_locked' = L.locked
    /\ rc_waiters' = L.waiters
    /\ rc_woken' = L.woken

\* asyncio.Lock._wake_up_first
LockWakeUpFirst(L) ==
    IF L.waiters # <<>> THEN [L EXCEPT !.woken = TRUE] ELSE L

\* asyncio.Lock.release, run by the exit of `async with self.sending`
LockRelease(L) == LockWakeUpFirst([L EXCEPT !.locked = FALSE])

\* mutant of LockFree: the critical section is entered without the lock
LockFree_Unguarded(L) == TRUE

\* asyncio.Lock.acquire without waiting: unlocked and nobody queued
LockFree(L) == ~L.locked /\ L.waiters = <<>>

\* asyncio.Lock.acquire takes the lock
LockTake(L) == [L EXCEPT !.locked = TRUE]

\* a waiter leaves the queue (woken, or cancelled by its deadline)
LockLeave(L, c) ==
    LET i    == CHOOSE j \in 1 .. Len(L.waiters) : L.waiters[j] = c
        rest == [j \in 1 .. Len(L.waiters) - 1 |->
                    IF j < i THEN L.waiters[j] ELSE L.waiters[j + 1]]
    IN  [L EXCEPT !.waiters = rest,
                  !.woken = IF i = 1 THEN FALSE ELSE @]

\* asyncio.Lock.acquire, the CancelledError handler of a waiter
LockCancelWaiter(L, c) ==
    LET L1 == LockLeave(L, c)
    IN  IF ~L1.locked /\ ~L1.woken THEN LockWakeUpFirst(L1) ELSE L1

(***************************************************************************)
(* One invocation c of RequestClient.send.  rc_pc[c] is                    *)
(*   "idle"   not called yet                                               *)
(*   "acq"    send has connected and handed _send_recv to wait_for         *)
(*   "wait"   _send_recv waits in `async with self.sending`                *)
(*   "recv1"  holds the lock, awaits socket.recv() of the first attempt    *)
(*   "recv2"  holds the lock, awaits socket.recv() of the retry            *)
(*   "exc"    _send_recv has raised, send's except clause has not run yet  *)
(*   "tmo"    the deadline cancelled _send_recv, send's except clause has  *)
(*            not run yet                                                  *)
(*   "done"   send has returned or raised: rc_res[c]                       *)
(***************************************************************************)
CallRec(c) ==
    [sent |-> rc_sent[c], tries |-> rc_tries[c], reconn |-> rc_reconn[c],
     futsock |-> rc_futsock[c], ret |-> rc_ret[c], err |-> rc_err[c],
     prior |-> rc_prior[c]]

CallCommit(c, K, pc, res) ==
    /\ rc_sent' = [rc_sent EXCEPT ![c] = K.sent]
    /\ rc_tries' = [rc_tries EXCEPT ![c] = K.tries]
    /\ rc_reconn' = [rc_reconn EXCEPT ![c] = K.reconn]
    /\ rc_futsock' = [rc_futsock EXCEPT ![c] = K.futsock]
    /\ rc_ret' = [rc_ret EXCEPT ![c] = K.ret]
    /\ rc_err' = [rc_err EXCEPT ![c] = K.err]
    /\ rc_prior' = [rc_prior EXCEPT ![c] = K.prior]
    /\ rc_pc' = [rc_pc EXCEPT ![c] = pc]
    /\ rc_res' = [rc_res EXCEPT ![c] = res]

\* mutant of ReqSendAllowed: the socket is not a strict REQ socket and
\* takes a second request while a reply is outstanding
ReqSendAllowed_Relaxed(S, s) == TRUE

\* a REQ socket accepts a send only when no request is outstanding on it
\* (otherwise zmq raises ZMQError EFSM)
ReqSendAllowed(S, s) == S.fsm[s] = "idle"

\* `await self.socket.send(message)` succeeds and `self.socket.recv()` is
\* awaited: the request is on the wire, the call waits in nextpc
Transmit(c, S, K, L, nextpc) ==
    LET s  == S.socket
        S1 == [S EXCEPT !.wreq[s] = Append(@, dumps(Load(c))),
                        !.fsm[s] = "await",
                        !.fut[c] = "pending"]
        K1 == [K EXCEPT !.sent = Append(@, <<s, dumps(Load(c))>>),
                        !.tries = @ + 1,
                        !.futsock = s]
    IN  /\ RCCommit(S1)
        /\ LockCommit(L)
        /\ CallCommit(c, K1, nextpc, rc_res[c])

\* an exception leaves _send_recv: `async with` releases the lock, the
\* exception travels to send
Raise(c, S, K, L, kind) ==
    /\ RCCommit([S EXCEPT !.fut[c] = "none"])
    /\ LockCommit(LockRelease(L))
    /\ CallCommit(c, [K EXCEPT !.err = kind], "exc", rc_res[c])

\* mutant of RetryOnError: after the resend the call is back in the first
\* attempt, so that a further failure is caught and retried again
RetryOnError_Again(c, S, K, L, fail) ==
    LET S1 == RCConnect(RCClose([S EXCEPT !.fut[c] = "none"]))
        K1 == [K EXCEPT !.reconn = @ + 1]
    IN  /\ CanConnect(RCClose(S))
        /\ IF fail
           THEN Raise(c, S1, [K1 EXCEPT !.tries = @ + 1], L, "ZMQError")
           ELSE Transmit(c, S1, K1, L, "recv1")

\* _send_recv, the `except zmq.error.ZMQError` handler:
\* close, connect, send again, await recv.  fail: the second send raises
RetryOnError(c, S, K, L, fail) ==
    LET S1 == RCConnect(RCClose([S EXCEPT !.fut[c] = "none"]))
        K1 == [K EXCEPT !.reconn = @ + 1]
    IN  /\ CanConnect(RCClose(S))
        /\ IF S1.socket = None
           THEN Raise(c, S1, K1, L, "AttributeError")
           ELSE IF fail \/ ~ReqSendAllowed(S1, S1.socket)
           THEN Raise(c, S1, [K1 EXCEPT !.tries = @ + 1], L, "ZMQError")
           ELSE Transmit(c, S1, K1, L, "recv2")

\* _send_recv from the moment it holds the lock: the first send.
\* fail1, fail2: the transport fails the first, the second send
FirstAttempt(c, L, fail1, fail2) ==
    LET S == RCState
        K == CallRec(c)
    IN  IF S.socket = None
        THEN Raise(c, S, K, L, "AttributeError")
        ELSE IF fail1 \/ ~ReqSendAllowed(S, S.socket)
        THEN RetryOnError(c, S, [K EXCEPT !.tries = @ + 1], L, fail2)
        ELSE Transmit(c, S, K, L, "recv1")

\* the calls whose send has raised SaltReqTimeoutError
TimedOutCalls == {d \in Calls : rc_res[d].kind = "SaltReqTimeoutError"}

\* send, up to wait_for: `if not self.socket: await self.connect()`
SendStart(c) ==
    /\ rc_pc[c] = "idle"
    /\ CanConnect(RCState)
    /\ RCCommit(IF rc_socket = None THEN RCConnect(RCState) ELSE RCState)
    /\ CallCommit(c, [CallRec(c) EXCEPT !.prior = TimedOutCalls], "acq",
                  rc_res[c])
    /\ UNCHANGED <<rc_locked, rc_waiters, rc_woken>>
    /\ UNCHANGED <<subVars, psVars, recvVars, rsVars, utilVars>>

\* _send_recv starts: `async with self.sending` takes the free lock and
\* the first attempt runs, or the call queues behind the holder
Acquire(c, fail1, fail2) ==
    /\ rc_pc[c] = "acq"
    /\ IF LockFree(RCLock)
       THEN FirstAttempt(c, LockTake(RCLock), fail1, fail2)
       ELSE /\ fail1 = FALSE /\ fail2 = FALSE
            /\ LockCommit([RCLock EXCEPT !.waiters = Append(@, c)])
            /\ CallCommit(c, CallRec(c), "wait", rc_res[c])
            /\ RCCommit(RCState)
    /\ UNCHANGED <<subVars, psVars, recvVars, rsVars, utilVars>>

\* a woken waiter runs: it leaves the queue, takes the lock and the first
\* attempt runs
Wake(c, fail1, fail2) ==
    /\ rc_pc[c] = "wait"
    /\ rc_woken
    /\ rc_waiters # <<>> /\ Head(rc_waiters) = c
    /\ FirstAttempt(c, LockTake(LockLeave(RCLock, c)), fail1, fail2)
    /\ UNCHANGED <<subVars, psVars, recvVars, rsVars, utilVars>>

UnchangedLock == UNCHANGED <<rc_locked, rc_waiters, rc_woken>>
UnchangedCalls ==
    UNCHANGED <<rc_pc, rc_futsock, rc_ret, rc_err, rc_sent, rc_tries,
                rc_reconn, rc_prior, rc_res>>

\* the master answers the oldest request outstanding on connection s
Server(s) ==
    /\ s \in rc_open
    /\ rc_wreq[s] # <<>>
    /\ rc_wreq' = [rc_wreq EXCEPT ![s] = Tail(@)]
    /\ rc_wrep' = [rc_wrep EXCEPT ![s] = Append(@, ServerReply(Head(rc_wreq[s])))]
    /\ UNCHANGED <<rc_socket, rc_context, rc_closing, rc_nsock, rc_nctx,
                   rc_open, rc_live, rc_fsm, rc_fut>>
    /\ UnchangedLock
    /\ UnchangedCalls
    /\ UNCHANGED <<subVars, psVars, recvVars, rsVars, utilVars>>

\* the event loop completes the pending socket.recv() of call c with the
\* reply that arrived on its socket
RecvDone(c) ==
    /\ rc_fut[c] = "pending"
    /\ rc_futsock[c] \in rc_open
    /\ rc_wrep[rc_futsock[c]] # <<>>
    /\ rc_ret' = [rc_ret EXCEPT ![c] = Head(rc_wrep[rc_futsock[c]])]
    /\ rc_wrep' = [rc_wrep EXCEPT ![rc_futsock[c]] = Tail(@)]
    /\ rc_fsm' = [rc_fsm EXCEPT ![rc_futsock[c]] = "idle"]
    /\ rc_fut' = [rc_fut EXCEPT ![c] = "ok"]
    /\ UNCHANGED <<rc_socket, rc_context, rc_closing, rc_nsock, rc_nctx,
                   rc_open, rc_live, rc_wreq>>
    /\ UnchangedLock
    /\ UNCHANGED <<rc_pc, rc_futsock, rc_err, rc_sent, rc_tries, rc_reconn,
                   rc_prior, rc_res>>
    /\ UNCHANGED <<subVars, psVars, recvVars, rsVars, utilVars>>

\* the pending socket.recv() of call c fails with a transport error
RecvFail(c) ==
    /\ rc_fut[c] = "pending"
    /\ rc_fut' = [rc_fut EXCEPT ![c] = "err"]
    /\ UNCHANGED <<rc_socket, rc_context, rc_closing, rc_nsock, rc_nctx,
                   rc_open, rc_live, rc_fsm, rc_wreq, rc_wrep>>
    /\ UnchangedLock
    /\ UnchangedCalls
    /\ UNCHANGED <<subVars, psVars, recvVars, rsVars, utilVars>>

\* _send_recv returns loads(ret): the lock is released and send returns
Return(c) ==
    /\ RCCommit([RCState EXCEPT !.fut[c] = "none"])
    /\ LockCommit(LockRelease(RCLock))
    /\ CallCommit(c, CallRec(c), "done",
                  [kind |-> "ok", val |-> loads(rc_ret[c])])

\* the cancelled recv raises CancelledError, which is no Exception: it
\* leaves _send_recv (releasing the lock) and send, whose except clauses do
\* not run
Cancelled(c) ==
    /\ RCCommit([RCState EXCEPT !.fut[c] = "none"])
    /\ LockCommit(LockRelease(RCLock))
    /\ CallCommit(c, CallRec(c), "done",
                  [kind |-> "CancelledError", val |-> None])

\* the first `ret = await self.socket.recv()` resumes
Resume1(c, fail) ==
    /\ rc_pc[c] = "recv1"
    /\ rc_fut[c] \in {"ok", "err", "cancelled"}
    /\ CASE rc_fut[c] = "ok" -> fail = FALSE /\ Return(c)
         [] rc_fut[c] = "cancelled" -> fail = FALSE /\ Cancelled(c)
         [] rc_fut[c] = "err" ->
                RetryOnError(c, RCState, CallRec(c), RCLock, fail)
    /\ UNCHANGED <<subVars, psVars, recvVars, rsVars, utilVars>>

\* the `ret = await self.socket.recv()` of the retry resumes; a ZMQError
\* is not caught a second time
Resume2(c) ==
    /\ rc_pc[c] = "recv2"
    /\ rc_fut[c] \in {"ok", "err", "cancelled"}
    /\ CASE rc_fut[c] = "ok" -> Return(c)
         [] rc_fut[c] = "cancelled" -> Cancelled(c)
         [] rc_fut[c] = "err" ->
                Raise(c, RCState, CallRec(c), RCLock, "ZMQError")
    /\ UNCHANGED <<subVars, psVars, recvVars, rsVars, utilVars>>

\* the deadline of asyncio.wait_for elapses: _send_recv is cancelled
\* wherever it waits; it gives up the lock or its place in the queue
Timeout(c) ==
    /\ rc_pc[c] \in {"acq", "wait", "recv1", "recv2"}
    /\ RCCommit([RCState EXCEPT !.fut[c] = "none"])
    /\ LockCommit(CASE rc_pc[c] = "acq" -> RCLock
                    [] rc_pc[c] = "wait" -> LockCancelWaiter(RCLock, c)
                    [] OTHER -> LockRelease(RCLock))
    /\ CallCommit(c, CallRec(c), "tmo", rc_res[c])
    /\ UNCHANGED <<subVars, psVars, recvVars, rsVars, utilVars>>

\* send: `except (asyncio.exceptions.TimeoutError, TimeoutError)`
SendTimeout(c) ==
    /\ rc_pc[c] = "tmo"
    /\ RCCommit(RCClose(RCState))
    /\ CallCommit(c, CallRec(c), "done",
                  [kind |-> "SaltReqTimeoutError", val |-> None])
    /\ UnchangedLock
    /\ UNCHANGED <<subVars, psVars, recvVars, rsVars, utilVars>>

\* send: `except Exception`
SendExcept(c) ==
    /\ rc_pc[c] = "exc"
    /\ RCCommit(RCClose(RCState))
    /\ CallCommit(c, CallRec(c), "done", [kind |-> rc_err[c], val |-> None])
    /\ UnchangedLock
    /\ UNCHANGED <<subVars, psVars, recvVars, rsVars, utilVars>>

\* the application calls close()
UserClose ==
    /\ RCCommit(RCClose(RCState))
    /\ UnchangedLock
    /\ UnchangedCalls
    /\ UNCHANGED <<subVars, psVars, recvVars, rsVars, utilVars>>

\* the application calls connect()
UserConnect ==
    /\ CanConnect(RCState)
    /\ RCCommit(RCConnect(RCState))
    /\ UnchangedLock
    /\ UnchangedCalls
    /\ UNCHANGED <<subVars, psVars, recvVars, rsVars, utilVars>>

(***************************************************************************)
(* Byte strings, text and hashing.  A byte string is a tagged text: "b"    *)
(* for encoded text, "ser" for a serialized payload.  to_bytes and to_str  *)
(* are salt.utils.stringutils; sha1_hexdigest is                           *)
(* hashlib.sha1(...).hexdigest(), a table on the identities of the model   *)
(* with one distinct digest each.                                          *)
(***************************************************************************)
to_bytes(s) == <<"b", s>>
to_str(b) == b[2]
EmptyBytes == <<"b", "">>
b_broadcast == <<"b", "broadcast">>
b_syndic == <<"b", "syndic">>

sha1_hexdigest(b) ==
    CASE b = to_bytes("m1") -> "sha1(m1)"
      [] b = to_bytes("m2") -> "sha1(m2)"
      [] b = to_bytes("") -> "sha1()"

\* the minion identities (opts["id"], topics of a targeted publish)
Ids == {"m1", "m2"}
\* opts["__role"]
Roles == {"minion", "syndic"}
\* serialized payloads on the publish channel
SerPayloads == {dumps("job1"), dumps("job2")}
\* payloads a producer may publish: any bytes, the empty string included
Payloads == SerPayloads \cup {EmptyBytes}

(***************************************************************************)
(* PublishClient                                                           *)
(***************************************************************************)
\* Python values of the endpoint arguments, as text; PyNone is an absent one
PyNone == "None"
\* Python's truth value of such an argument
Truthy(v) == v \notin {PyNone, "", "0"}
Hosts == {PyNone, "", "127.0.0.1"}
Ports == {PyNone, "0", "4505"}
Paths == {PyNone, "", "/pub.ipc"}
SubOpts == [id : Ids, role : Roles, zmq_filtering : BOOLEAN,
            zmq_monitor : BOOLEAN]

\* callbacks an application may register
Callbacks == {"cb1", "cb2"}
ConsIds == 1 .. MaxConsumers
Objects == {"subscriber", "producer", "daemon"}

\* no PublishClient has been constructed
SubNew ==
    [obj |-> "none", host |-> PyNone, port |-> PyNone, path |-> PyNone,
     role |-> "", id |-> "", zmq_filtering |-> FALSE, hexid |-> "",
     closing |-> FALSE, socket |-> "none", context |-> "none",
     monitor |-> FALSE, mon_running |-> FALSE, subscribed |-> {},
     connected |-> FALSE, callbacks |-> [cb \in Callbacks |-> None]]

ConsFree == [state |-> "free", running |-> FALSE, cb |-> "", logged |-> 0]
NoDecode ==
    [called |-> FALSE, messages |-> [list |-> TRUE, frames |-> <<>>],
     out |-> [kind |-> "none", val |-> "", exc |-> "", count |-> -1]]
NoCloses == [o \in Objects |-> [n |-> 0, ops |-> <<>>]]

SubInit ==
    /\ sub = SubNew
    /\ cons = [k \in ConsIds |-> ConsFree]
    /\ sub_queue = <<>>
    /\ sub_inlog = <<>>
    /\ sub_delivered = <<>>
    /\ sub_decoded = NoDecode
    /\ closelog = NoCloses

\* subscriptions that do not depend on the role
Subscriptions_RoleBlind(opts, hexid) ==
    IF opts.zmq_filtering
    THEN {b_broadcast, to_bytes(hexid)}
    ELSE {EmptyBytes}

\* the topics _legacy_setup subscribes the SUB socket to
Subscriptions(opts, hexid) ==
    IF opts.zmq_filtering
    THEN {b_broadcast} \cup
         (IF opts.role = "syndic" THEN {b_syndic} ELSE {to_bytes(hexid)})
    ELSE {EmptyBytes}

\* __init__: the endpoint check after _legacy_setup
EndpointRejected(host, port, path) ==
    IF host = PyNone /\ port = PyNone
    THEN path = PyNone
    ELSE IF Truthy(host) /\ Truthy(port)
    THEN Truthy(path)
    ELSE FALSE

\* __init__ with _legacy_setup: the object (and the socket and context
\* _legacy_setup creates before the endpoint check)
PCConstruct(host, port, path, opts) ==
    LET hexid == sha1_hexdigest(to_bytes(opts.id))
    IN  [obj |-> IF EndpointRejected(host, port, path)
                 THEN "raised" ELSE "built",
         host |-> host, port |-> port, path |-> path,
         role |-> opts.role, id |-> opts.id,
         zmq_filtering |-> opts.zmq_filtering, hexid |-> hexid,
         closing |-> FALSE, socket |-> "open", context |-> "live",
         monitor |-> opts.zmq_monitor, mon_running |-> opts.zmq_monitor,
         subscribed |-> Subscriptions(opts, hexid),
         connected |-> FALSE, callbacks |-> [cb \in Callbacks |-> None]]

\* outcomes of _decode_messages
Decoded(v) == [kind |-> "payload", val |-> v, exc |-> "", count |-> -1]
DecodedNone == [kind |-> "none", val |-> "", exc |-> "", count |-> -1]
\* an exception of class exc; count is the frame count its message reports
\* (-1: none)
DecodeRaises(exc, count) ==
    [kind |-> "raise", val |-> "", exc |-> exc, count |-> count]

\* the 2-frame test of _decode_messages: the message is for this client
TargetAccepted(S, message_target) ==
    ~ \/ (S.role # "syndic" /\ message_target \notin {"broadcast", S.hexid})
      \/ (S.role = "syndic" /\ message_target \notin {"broadcast", "syndic"})

\* _decode_messages(messages); messages.list tells a list from bare bytes.
\* In the last branch of the list case the message of the exception is
\* built from len(messages_len), the len() of an int: TypeError
decode_messages(S, messages) ==
    IF messages.list
    THEN LET messages_len == Len(messages.frames)
         IN  IF messages_len = 1
             THEN Decoded(loads(messages.frames[1]))
             ELSE IF messages_len = 2
             THEN IF TargetAccepted(S, to_str(messages.frames[1]))
                  THEN Decoded(loads(messages.frames[2]))
                  ELSE DecodedNone
             ELSE DecodeRaises("TypeError", -1)
    ELSE Decoded(loads(messages.frames[1]))

\* the library calls close() issues
PCCloseOps(S) ==
    IF S.closing
    THEN <<>>
    ELSE (IF S.monitor THEN <<"_monitor.stop">> ELSE <<>>)
         \o <<"_socket.close">>
         \o (IF S.context = "live" THEN <<"context.term">> ELSE <<>>)

\* close(): the fields and the objects they refer to
PCClose(S) ==
    IF S.closing
    THEN S
    ELSE [S EXCEPT !.closing = TRUE,
                   !.monitor = FALSE,
                   !.mon_running = FALSE,
                   !.socket = "closed",
                   !.connected = FALSE,
                   !.context = "term",
                   !.callbacks = [cb \in Callbacks |-> None]]

\* `running.clear()` for every entry of the registry reg
ClearFlags(C, reg) ==
    [k \in ConsIds |->
        IF \E cb \in Callbacks : reg[cb] = k
        THEN [C[k] EXCEPT !.running = FALSE]
        ELSE C[k]]

\* closing the socket cancels the recv futures pending on it: a consumer
\* suspended in recv ends with CancelledError, which no clause of consume
\* catches
CancelRecvs(C) ==
    [k \in ConsIds |->
        IF C[k].state = "recv"
        THEN [C[k] EXCEPT !.state = "cancelled"]
        ELSE C[k]]

\* a call other than close() was made on object o
NoteCall(o) == [closelog EXCEPT ![o] = [n |-> 0, ops |-> <<>>]]
\* a close() was made on object o and issued the library calls ops
NoteClose(o, ops) ==
    [closelog EXCEPT ![o] = [n |-> IF @.n < 2 THEN @.n + 1 ELSE 2,
                             ops |-> ops]]

\* the application constructs the PublishClient
PCNew(host, port, path, opts) ==
    /\ sub.obj = "none"
    /\ sub' = PCConstruct(host, port, path, opts)
    /\ closelog' = NoteCall("subscriber")
    /\ UNCHANGED <<cons, sub_queue, sub_inlog, sub_delivered, sub_decoded>>
    /\ UNCHANGED <<rcVars, psVars, recvVars, rsVars, utilVars>>

\* the channel hands a received message list to _decode_messages (once in
\* a run: the function keeps no state)
PCDecode(messages) ==
    /\ sub.obj = "built"
    /\ ~sub_decoded.called
    /\ sub_decoded' = [called |-> TRUE, messages |-> messages,
                       out |-> decode_messages(sub, messages)]
    /\ UNCHANGED <<sub, cons, sub_queue, sub_inlog, sub_delivered, closelog>>
    /\ UNCHANGED <<rcVars, psVars, recvVars, rsVars, utilVars>>

\* connect(): the URI is ipc://path when path is set, else the TCP URI of
\* host and port; the library refuses a closed socket and a URI without a
\* port or host
PCConnect ==
    /\ sub.obj = "built"
    /\ sub' = [sub EXCEPT !.connected =
                  \/ @
                  \/ /\ sub.socket = "open"
                     /\ \/ Truthy(sub.path)
                        \/ Truthy(sub.host) /\ Truthy(sub.port)]
    /\ closelog' = NoteCall("subscriber")
    /\ UNCHANGED <<cons, sub_queue, sub_inlog, sub_delivered, sub_decoded>>
    /\ UNCHANGED <<rcVars, psVars, recvVars, rsVars, utilVars>>

\* the application calls close()
PCCloseCall ==
    /\ sub.obj = "built"
    /\ sub' = PCClose(sub)
    /\ cons' = IF sub.closing
               THEN cons
               ELSE ClearFlags(CancelRecvs(cons), sub.callbacks)
    /\ closelog' = NoteClose("subscriber", PCCloseOps(sub))
    /\ UNCHANGED <<sub_queue, sub_inlog, sub_delivered, sub_decoded>>
    /\ UNCHANGED <<rcVars, psVars, recvVars, rsVars, utilVars>>

\* on_recv(None): every registered run flag is cleared, the registry emptied
OnRecvNone ==
    /\ sub.obj = "built"
    /\ sub' = [sub EXCEPT !.callbacks = [cb \in Callbacks |-> None]]
    /\ cons' = ClearFlags(cons, sub.callbacks)
    /\ closelog' = NoteCall("subscriber")
    /\ UNCHANGED <<sub_queue, sub_inlog, sub_delivered, sub_decoded>>
    /\ UNCHANGED <<rcVars, psVars, recvVars, rsVars, utilVars>>

\* on_recv(callback): a run flag is created set, a consumer task is spawned
\* and the registry entry of the callback is (over)written
OnRecv(cb) ==
    /\ sub.obj = "built"
    /\ \E k \in ConsIds :
          /\ cons[k].state = "free"
          /\ \A j \in ConsIds : j < k => cons[j].state # "free"
          /\ cons' = [cons EXCEPT ![k] = [state |-> "spawned",
                                          running |-> TRUE, cb |-> cb,
                                          logged |-> 0]]
          /\ sub' = [sub EXCEPT !.callbacks[cb] = k]
    /\ closelog' = NoteCall("subscriber")
    /\ UNCHANGED <<sub_queue, sub_inlog, sub_delivered, sub_decoded>>
    /\ UNCHANGED <<rcVars, psVars, recvVars, rsVars, utilVars>>

\* consume at `while running.is_set()` and into `await self.recv()`: the
\* consumer ends when its flag is cleared or the socket is closed (recv
\* raises ZMQError), else it waits for a frame
LoopHead(S, c) ==
    IF c.running /\ S.socket = "open"
    THEN [c EXCEPT !.state = "recv"]
    ELSE [c EXCEPT !.state = "done"]

\* the spawned consumer task starts to run
ConsStart(k) ==
    /\ cons[k].state = "spawned"
    /\ cons' = [cons EXCEPT ![k] = LoopHead(sub, @)]
    /\ UNCHANGED <<sub, sub_queue, sub_inlog, sub_delivered, sub_decoded,
                   closelog>>
    /\ UNCHANGED <<rcVars, psVars, recvVars, rsVars, utilVars>>

\* `if msg:` in consume
MsgTruthy(msg) == msg # EmptyBytes

\* the pending `self._socket.recv()` of a consumer completes with the next
\* frame of the socket; a frame that is not empty goes to the callback
ConsRecv(k) ==
    /\ cons[k].state = "recv"
    /\ sub.socket = "open"
    /\ sub_queue # <<>>
    /\ sub_queue' = Tail(sub_queue)
    /\ IF MsgTruthy(Head(sub_queue))
       THEN /\ sub_delivered' =
                  Append(sub_delivered, <<cons[k].cb, Head(sub_queue)>>)
            /\ cons' = [cons EXCEPT ![k].state = "cb"]
       ELSE /\ sub_delivered' = sub_delivered
            /\ cons' = [cons EXCEPT ![k] = LoopHead(sub, @)]
    /\ UNCHANGED <<sub, sub_inlog, sub_decoded, closelog>>
    /\ UNCHANGED <<rcVars, psVars, recvVars, rsVars, utilVars>>

\* ConsRecv in its two steps, between which other callbacks of the event
\* loop may run.  First the socket completes the pending receive of the
\* consumer with a frame (that stays at the head of sub_queue until the
\* consumer takes it) and schedules the task
ConsRecvReady(k) ==
    /\ cons[k].state = "recv"
    /\ sub.socket = "open"
    /\ Cardinality({j \in ConsIds : cons[j].state = "got"}) < Len(sub_queue)
    /\ cons' = [cons EXCEPT ![k].state = "got"]
    /\ UNCHANGED <<sub, sub_queue, sub_inlog, sub_delivered, sub_decoded,
                   closelog>>
    /\ UNCHANGED <<rcVars, psVars, recvVars, rsVars, utilVars>>

\* then the task resumes with the frame: `if msg: await callback(msg)`
ConsResume(k) ==
    /\ cons[k].state = "got"
    /\ sub_queue' = Tail(sub_queue)
    /\ IF MsgTruthy(Head(sub_queue))
       THEN /\ sub_delivered' =
                  Append(sub_delivered, <<cons[k].cb, Head(sub_queue)>>)
            /\ cons' = [cons EXCEPT ![k].state = "cb"]
       ELSE /\ sub_delivered' = sub_delivered
            /\ cons' = [cons EXCEPT ![k] = LoopHead(sub, @)]
    /\ UNCHANGED <<sub, sub_inlog, sub_decoded, closelog>>
    /\ UNCHANGED <<rcVars, psVars, recvVars, rsVars, utilVars>>

\* the callback raises an Exception and the consumer task ends with it
ConsCbRaise_Dies(k) ==
    /\ cons[k].state = "cb"
    /\ cons' = [cons EXCEPT ![k].state = "done"]
    /\ UNCHANGED <<sub, sub_queue, sub_inlog, sub_delivered, sub_decoded,
                   closelog>>
    /\ UNCHANGED <<rcVars, psVars, recvVars, rsVars, utilVars>>

\* the callback raises an Exception: consume logs it and goes to the head
\* of its loop
ConsCbRaise(k) ==
    /\ cons[k].state = "cb"
    /\ cons' = [cons EXCEPT ![k] = LoopHead(sub, [@ EXCEPT !.logged = @ + 1])]
    /\ UNCHANGED <<sub, sub_queue, sub_inlog, sub_delivered, sub_decoded,
                   closelog>>
    /\ UNCHANGED <<rcVars, psVars, recvVars, rsVars, utilVars>>

\* the callback returns
ConsCbDone(k) ==
    /\ cons[k].state = "cb"
    /\ cons' = [cons EXCEPT ![k] = LoopHead(sub, @)]
    /\ UNCHANGED <<sub, sub_queue, sub_inlog, sub_delivered, sub_decoded,
                   closelog>>
    /\ UNCHANGED <<rcVars, psVars, recvVars, rsVars, utilVars>>

\* the pending recv of a consumer fails with a ZMQError: `break`
ConsRecvErr(k) ==
    /\ cons[k].state = "recv"
    /\ cons' = [cons EXCEPT ![k].state = "done"]
    /\ UNCHANGED <<sub, sub_queue, sub_inlog, sub_delivered, sub_decoded,
                   closelog>>
    /\ UNCHANGED <<rcVars, psVars, recvVars, rsVars, utilVars>>

\* a SUB socket takes a message when one of its subscriptions is a prefix
\* of the first frame.  No byte string of the model is a proper prefix of
\* another one, the empty string apart
IsPrefix(s, frame) == s = EmptyBytes \/ s = frame

\* a SUB socket that takes every message, whatever its subscriptions
Accepts_Any(S, msg) == S.connected /\ S.socket = "open"

Accepts(S, msg) ==
    /\ S.connected
    /\ S.socket = "open"
    /\ \E s \in S.subscribed : IsPrefix(s, msg[1])

\* a message of one frame, sent by a publisher that does not filter,
\* reaches the SUB socket
SubArrive(frame) ==
    /\ Len(sub_inlog) < MaxArrive
    /\ Accepts(sub, <<frame>>)
    /\ sub_queue' = Append(sub_queue, frame)
    /\ sub_inlog' = Append(sub_inlog, <<frame>>)
    /\ UNCHANGED <<sub, cons, sub_delivered, sub_decoded, closelog>>
    /\ UNCHANGED <<rcVars, psVars, recvVars, rsVars, utilVars>>

\* the timeout argument of recv: 0, a positive number, absent
Timeouts == {"0", "0.5", PyNone}
\* recv returns None
RecvNone == <<>>

\* no recv invocation yet
RecvIdle ==
    [state |-> "idle", timeout |-> PyNone, ready |-> FALSE, waited |-> FALSE,
     out |-> RecvNone]

RecvInit == rv = RecvIdle

\* a receive is pending on the socket: that of a consumer task
ConsPending == \E k \in ConsIds : cons[k].state = "recv"

\* recv returns out
RecvReturn(R, out) == [R EXCEPT !.state = "ret", !.out = out]

\* recv waits for the future of `self._socket.recv()`
RecvWait(R) == [R EXCEPT !.state = "wait", !.waited = TRUE]

\* recv(timeout) is called and runs to its return or to its first wait.
\* With timeout 0 the poller is asked first, and nothing is returned when
\* it reports no event.  `self._socket.recv()` completes at once when a
\* frame is queued and no earlier receive is pending on the socket; when
\* one is pending the socket hands the queued frame to it, and this call
\* waits behind
RecvCall(timeout) ==
    /\ sub.obj = "built"
    /\ sub.socket = "open"
    /\ rv.state # "wait"
    /\ LET R == [state |-> "run", timeout |-> timeout,
                 ready |-> sub_queue # <<>>, waited |-> FALSE,
                 out |-> RecvNone]
       IN  IF timeout = "0" /\ sub_queue = <<>>
           THEN /\ rv' = RecvReturn(R, RecvNone)
                /\ UNCHANGED <<cons, sub_queue, sub_delivered>>
           ELSE IF sub_queue = <<>>
           THEN /\ rv' = RecvWait(R)
                /\ UNCHANGED <<cons, sub_queue, sub_delivered>>
           ELSE IF ~ConsPending
           THEN /\ rv' = RecvReturn(R, Head(sub_queue))
                /\ sub_queue' = Tail(sub_queue)
                /\ UNCHANGED <<cons, sub_delivered>>
           ELSE /\ rv' = RecvWait(R)
                /\ sub_queue' = Tail(sub_queue)
                /\ \E k \in ConsIds :
                      /\ cons[k].state = "recv"
                      /\ IF MsgTruthy(Head(sub_queue))
                         THEN /\ sub_delivered' =
                                    Append(sub_delivered,
                                           <<cons[k].cb, Head(sub_queue)>>)
                              /\ cons' = [cons EXCEPT ![k].state = "cb"]
                         ELSE /\ sub_delivered' = sub_delivered
                              /\ cons' = [cons EXCEPT ![k] = LoopHead(sub, @)]
    /\ UNCHANGED <<sub, sub_inlog, sub_decoded, closelog>>
    /\ UNCHANGED <<rcVars, psVars, rsVars, utilVars>>

\* the pending `self._socket.recv()` of recv completes with the next frame
RecvArrived ==
    /\ rv.state = "wait"
    /\ sub.socket = "open"
    /\ sub_queue # <<>>
    /\ rv' = RecvReturn(rv, Head(sub_queue))
    /\ sub_queue' = Tail(sub_queue)
    /\ UNCHANGED <<sub, cons, sub_inlog, sub_delivered, sub_decoded, closelog>>
    /\ UNCHANGED <<rcVars, psVars, rsVars, utilVars>>

\* the deadline of asyncio.wait_for elapses: the TimeoutError is logged and
\* recv returns None.  Only the branch `elif timeout:` has a deadline
RecvDeadline ==
    /\ rv.state = "wait"
    /\ rv.timeout # "0"
    /\ Truthy(rv.timeout)
    /\ rv' = RecvReturn(rv, RecvNone)
    /\ UNCHANGED <<sub, cons, sub_queue, sub_inlog, sub_delivered,
                   sub_decoded, closelog>>
    /\ UNCHANGED <<rcVars, psVars, rsVars, utilVars>>

\* message lists handed to _decode_messages: up to MaxFrames frames, the
\* last one a serialized payload, and bare bytes
TopicFrames ==
    {b_broadcast, b_syndic} \cup {to_bytes(sha1_hexdigest(to_bytes(i))) : i \in Ids}
HeadFrames(n) ==
    UNION {[1 .. m -> TopicFrames \cup {dumps("job1")}] : m \in 0 .. n}
MessageLists ==
    {[list |-> TRUE, frames |-> <<>>]} \cup
    {[list |-> TRUE, frames |-> h \o <<p>>] :
        h \in HeadFrames(MaxFrames - 1), p \in SerPayloads} \cup
    {[list |-> FALSE, frames |-> <<p>>] : p \in SerPayloads}

(***************************************************************************)
(* PublishServer.  The producer and the daemon each hold a copy of the     *)
(* object (the daemon is forked by pre_fork): prod is the producer's, dmn  *)
(* the daemon's.                                                           *)
(***************************************************************************)
PushIds == 1 .. MaxPush

\* the topic_list argument of publish_payload: absent (None) or a list
NoTopicList == [given |-> FALSE, topics |-> <<>>]
TopicList(t) == [given |-> TRUE, topics |-> t]
TopicLists ==
    {NoTopicList, TopicList(<<>>), TopicList(<<"m1">>),
     TopicList(<<"m2", "m1">>)}

PSOpts == [zmq_filtering : BOOLEAN, order_masters : BOOLEAN]

\* the options of a master that neither filters nor orders masters
DefaultPSOpts == [zmq_filtering |-> FALSE, order_masters |-> FALSE]

\* no publish_payload invocation yet
PPIdle ==
    [status |-> "idle", payload |-> EmptyBytes, topic_list |-> NoTopicList,
     phase |-> "none", i |-> 0, out |-> <<>>]

\* PublishServer.__init__, on both sides of the fork
PSInit ==
    /\ ps_opts \in PSOpts
    /\ prod = [ctx |-> None, sock |-> None]
    /\ push = [n |-> 0, open |-> {}, live |-> {}]
    /\ pipe = [i \in PushIds |-> <<>>]
    /\ dmn = [state |-> "new", started |-> FALSE, dpub_sock |-> FALSE,
              daemon_context |-> FALSE, daemon_pub_sock |-> FALSE,
              daemon_pull_sock |-> FALSE, daemon_monitor |-> FALSE,
              context |-> "none", pub |-> "none", pull |-> "none",
              monitor |-> "none"]
    /\ pp = PPIdle
    /\ ps_published = <<>>
    /\ ps_pulled = <<>>
    /\ ps_emitted = <<>>
    /\ ps_logged = 0
    /\ ps_calls = 0

\* connect(): a new context and PUSH socket replace the references held
PSConnect(P, U) ==
    LET id == U.n + 1
    IN  [prod |-> [ctx |-> id, sock |-> id],
         push |-> [n |-> id, open |-> U.open \cup {id},
                   live |-> U.live \cup {id}]]

\* the library calls close() issues on the producer's copy
ProdCloseOps(P, U) ==
    (IF P.sock # None THEN <<"sock.close">> ELSE <<>>)
    \o (IF P.ctx # None /\ P.ctx \in U.live THEN <<"ctx.term">> ELSE <<>>)

\* close() on the producer's copy: its daemon fields are None
ProdClose(P, U) ==
    [prod |-> [ctx |-> IF P.ctx # None /\ P.ctx \in U.live
                       THEN None ELSE P.ctx,
               sock |-> None],
     push |-> [U EXCEPT !.open = @ \ {P.sock},
                        !.live = @ \ {P.ctx}]]

\* the library calls close() issues on the daemon's copy: its sock and ctx
\* are None, and the daemon fields are tested for truth and never reset
DaemonCloseOps(D) ==
    (IF D.daemon_monitor THEN <<"daemon_monitor.stop">> ELSE <<>>)
    \o (IF D.daemon_pub_sock THEN <<"daemon_pub_sock.close">> ELSE <<>>)
    \o (IF D.daemon_pull_sock THEN <<"daemon_pull_sock.close">> ELSE <<>>)
    \o (IF D.daemon_context
        THEN <<"daemon_context.destroy", "daemon_context.term">>
        ELSE <<>>)

\* close() on the daemon's copy; destroy closes every socket of the context
DaemonClose(D) ==
    [D EXCEPT !.state = "stopped",
              !.monitor = IF D.daemon_monitor THEN "stopped" ELSE @,
              !.pub = IF D.daemon_pub_sock \/ (D.daemon_context /\ @ # "none")
                      THEN "closed" ELSE @,
              !.pull = IF D.daemon_pull_sock \/ (D.daemon_context /\ @ # "none")
                       THEN "closed" ELSE @,
              !.context = IF D.daemon_context THEN "term" ELSE @]

\* publish_payload: the topic frame of a targeted message
Htopic_Plain(topic) == to_bytes(topic)

Htopic(topic) == to_bytes(sha1_hexdigest(to_bytes(topic)))

\* `if topic_list:`
TopicListTruthy(tl) == tl.given /\ tl.topics # <<>>

\* publish_payload, up to its first send
PPStart(payload, tl) ==
    [status |-> "run", payload |-> payload, topic_list |-> tl,
     phase |-> IF ps_opts.zmq_filtering
               THEN IF TopicListTruthy(tl) THEN "topics" ELSE "broadcast"
               ELSE "plain",
     i |-> 1, out |-> <<>>]

\* the single frame publish_payload sends when filtering is off
PlainMessage_Tagged(payload) == <<b_broadcast, payload>>

PlainMessage(payload) == <<payload>>

\* the message the next send of publish_payload puts on the fan-out socket
PPMessage(I) ==
    CASE I.phase = "topics" -> <<Htopic(I.topic_list.topics[I.i]), I.payload>>
      [] I.phase = "syndic" -> <<b_syndic, I.payload>>
      [] I.phase = "broadcast" -> <<b_broadcast, I.payload>>
      [] I.phase = "plain" -> PlainMessage(I.payload)

\* mutant of PPAfterSend: the syndic message follows a broadcast as well
PPAfterSend_SyndicToo(I) ==
    LET J == [I EXCEPT !.out = Append(@, PPMessage(I))]
    IN  IF I.phase = "topics" /\ I.i < Len(I.topic_list.topics)
        THEN [J EXCEPT !.i = @ + 1]
        ELSE IF I.phase \in {"topics", "broadcast"} /\ ps_opts.order_masters
        THEN [J EXCEPT !.phase = "syndic"]
        ELSE [J EXCEPT !.phase = "done", !.status = "ok"]

\* publish_payload after a send has returned
PPAfterSend(I) ==
    LET J == [I EXCEPT !.out = Append(@, PPMessage(I))]
    IN  IF I.phase = "topics" /\ I.i < Len(I.topic_list.topics)
        THEN [J EXCEPT !.i = @ + 1]
        ELSE IF I.phase = "topics" /\ ps_opts.order_masters
        THEN [J EXCEPT !.phase = "syndic"]
        ELSE [J EXCEPT !.phase = "done", !.status = "ok"]

\* the producer calls connect()
ProducerConnect ==
    /\ push.n < MaxPush
    /\ prod' = PSConnect(prod, push).prod
    /\ push' = PSConnect(prod, push).push
    /\ closelog' = NoteCall("producer")
    /\ UNCHANGED <<ps_opts, pipe, dmn, pp, ps_published, ps_pulled,
                   ps_emitted, ps_logged, ps_calls>>
    /\ UNCHANGED <<sub, cons, sub_queue, sub_inlog, sub_delivered,
                   sub_decoded>>
    /\ UNCHANGED <<rcVars, recvVars, rsVars, utilVars>>

\* publish(payload): `if not self.sock: self.connect()`, then the send
Publish(payload) ==
    /\ Len(ps_published) < MaxPublish
    /\ prod.sock # None \/ push.n < MaxPush
    /\ LET C == IF prod.sock = None
                THEN PSConnect(prod, push)
                ELSE [prod |-> prod, push |-> push]
       IN  /\ prod' = C.prod
           /\ push' = C.push
           /\ pipe' = [pipe EXCEPT ![C.prod.sock] = Append(@, payload)]
           /\ ps_published' = Append(ps_published, <<C.prod.sock, payload>>)
    /\ closelog' = NoteCall("producer")
    /\ UNCHANGED <<ps_opts, dmn, pp, ps_pulled, ps_emitted, ps_logged, ps_calls>>
    /\ UNCHANGED <<sub, cons, sub_queue, sub_inlog, sub_delivered,
                   sub_decoded>>
    /\ UNCHANGED <<rcVars, recvVars, rsVars, utilVars>>

\* the producer calls close()
ProducerClose ==
    /\ prod' = ProdClose(prod, push).prod
    /\ push' = ProdClose(prod, push).push
    /\ closelog' = NoteClose("producer", ProdCloseOps(prod, push))
    /\ UNCHANGED <<ps_opts, pipe, dmn, pp, ps_published, ps_pulled,
                   ps_emitted, ps_logged, ps_calls>>
    /\ UNCHANGED <<sub, cons, sub_queue, sub_inlog, sub_delivered,
                   sub_decoded>>
    /\ UNCHANGED <<rcVars, recvVars, rsVars, utilVars>>

\* a publisher that sets the started flag before it binds
DaemonStart_FlagFirst(bind) ==
    /\ dmn.state = "new"
    /\ dmn' = IF bind = "ok"
              THEN [dmn EXCEPT !.state = "loop", !.started = TRUE,
                               !.dpub_sock = TRUE,
                               !.daemon_context = TRUE,
                               !.daemon_pub_sock = TRUE,
                               !.daemon_pull_sock = TRUE,
                               !.daemon_monitor = TRUE,
                               !.context = "live", !.pub = "bound",
                               !.pull = "bound", !.monitor = "running"]
              ELSE [dmn EXCEPT !.state = "failed", !.started = TRUE,
                               !.dpub_sock = TRUE,
                               !.daemon_context = TRUE,
                               !.context = "live",
                               !.pub = IF bind = "pub" THEN "open" ELSE "bound",
                               !.pull = "open", !.monitor = "running"]
    /\ closelog' = NoteCall("daemon")
    /\ UNCHANGED <<ps_opts, prod, push, pipe, pp, ps_published, ps_pulled,
                   ps_emitted, ps_logged, ps_calls>>
    /\ UNCHANGED <<sub, cons, sub_queue, sub_inlog, sub_delivered,
                   sub_decoded>>
    /\ UNCHANGED <<rcVars, recvVars, rsVars, utilVars>>

\* publisher, up to its loop: the context, _get_sockets (the sockets, the
\* monitor, the two binds) and started.set().  bind: which bind fails
DaemonStart(bind) ==
    /\ dmn.state = "new"
    /\ dmn' = IF bind = "ok"
              THEN [dmn EXCEPT !.state = "loop", !.started = TRUE,
                               !.dpub_sock = TRUE,
                               !.daemon_context = TRUE,
                               !.daemon_pub_sock = TRUE,
                               !.daemon_pull_sock = TRUE,
                               !.daemon_monitor = TRUE,
                               !.context = "live", !.pub = "bound",
                               !.pull = "bound", !.monitor = "running"]
              ELSE [dmn EXCEPT !.state = "failed",
                               !.dpub_sock = TRUE,
                               !.daemon_context = TRUE,
                               !.context = "live",
                               !.pub = IF bind = "pub" THEN "open" ELSE "bound",
                               !.pull = "open", !.monitor = "running"]
    /\ closelog' = NoteCall("daemon")
    /\ UNCHANGED <<ps_opts, prod, push, pipe, pp, ps_published, ps_pulled,
                   ps_emitted, ps_logged, ps_calls>>
    /\ UNCHANGED <<sub, cons, sub_queue, sub_inlog, sub_delivered,
                   sub_decoded>>
    /\ UNCHANGED <<rcVars, recvVars, rsVars, utilVars>>

\* a pull socket that gives the newest package of a connection first
DaemonRecv_Newest(i) ==
    /\ dmn.state = "loop"
    /\ dmn.pull = "bound"
    /\ pipe[i] # <<>>
    /\ pipe' = [pipe EXCEPT ![i] = SubSeq(@, 1, Len(@) - 1)]
    /\ ps_pulled' = Append(ps_pulled, pipe[i][Len(pipe[i])])
    /\ pp' = PPStart(pipe[i][Len(pipe[i])], NoTopicList)
    /\ dmn' = [dmn EXCEPT !.state = "pp"]
    /\ UNCHANGED <<ps_opts, prod, push, ps_published, ps_emitted, ps_logged,
                   ps_calls>>
    /\ UNCHANGED subVars
    /\ UNCHANGED <<rcVars, recvVars, rsVars, utilVars>>

\* the loop of publisher: `package = await self.daemon_pull_sock.recv()`
\* completes and publish_payload(package) is entered: the callable that
\* pre_fork passes is self.publish_payload, called without a topic list
DaemonRecv(i) ==
    /\ dmn.state = "loop"
    /\ dmn.pull = "bound"
    /\ pipe[i] # <<>>
    /\ pipe' = [pipe EXCEPT ![i] = Tail(@)]
    /\ ps_pulled' = Append(ps_pulled, Head(pipe[i]))
    /\ pp' = PPStart(Head(pipe[i]), NoTopicList)
    /\ dmn' = [dmn EXCEPT !.state = "pp"]
    /\ UNCHANGED <<ps_opts, prod, push, ps_published, ps_emitted, ps_logged,
                   ps_calls>>
    /\ UNCHANGED subVars
    /\ UNCHANGED <<rcVars, recvVars, rsVars, utilVars>>

\* publish_payload(payload, topic_list) is called on the daemon's copy by a
\* caller that chooses the topic list (the callable a channel passes to
\* publish_daemon)
PPCall(payload, tl) ==
    /\ dmn.state = "loop"
    /\ ps_calls < MaxCalls
    /\ ps_calls' = ps_calls + 1
    /\ pp' = PPStart(payload, tl)
    /\ dmn' = [dmn EXCEPT !.state = "pp"]
    /\ UNCHANGED <<ps_opts, prod, push, pipe, ps_published, ps_pulled,
                   ps_emitted, ps_logged>>
    /\ UNCHANGED subVars
    /\ UNCHANGED <<rcVars, recvVars, rsVars, utilVars>>

\* a publisher whose loop ends with the exception of a send
PPSend_Dies(fail) ==
    /\ dmn.state = "pp"
    /\ IF fail
       THEN /\ pp' = [pp EXCEPT !.status = "err"]
            /\ dmn' = [dmn EXCEPT !.state = "failed"]
            /\ ps_logged' = ps_logged + 1
            /\ UNCHANGED <<ps_emitted, sub_queue, sub_inlog>>
       ELSE /\ pp' = PPAfterSend(pp)
            /\ dmn' = [dmn EXCEPT !.state = IF PPAfterSend(pp).status = "ok"
                                            THEN "loop" ELSE "pp"]
            /\ ps_emitted' = Append(ps_emitted, PPMessage(pp))
            /\ IF Accepts(sub, PPMessage(pp))
               THEN /\ sub_queue' = sub_queue \o PPMessage(pp)
                    /\ sub_inlog' = Append(sub_inlog, PPMessage(pp))
               ELSE UNCHANGED <<sub_queue, sub_inlog>>
            /\ UNCHANGED ps_logged
    /\ UNCHANGED <<ps_opts, prod, push, pipe, ps_published, ps_pulled,
                   ps_calls>>
    /\ UNCHANGED <<sub, cons, sub_delivered, sub_decoded, closelog>>
    /\ UNCHANGED <<rcVars, recvVars, rsVars, utilVars>>

\* one send of publish_payload on the fan-out socket.  fail: the send
\* raises, the loop of publisher logs the exception and goes on
PPSend(fail) ==
    /\ dmn.state = "pp"
    /\ IF fail
       THEN /\ pp' = [pp EXCEPT !.status = "err"]
            /\ dmn' = [dmn EXCEPT !.state = "loop"]
            /\ ps_logged' = ps_logged + 1
            /\ UNCHANGED <<ps_emitted, sub_queue, sub_inlog>>
       ELSE /\ pp' = PPAfterSend(pp)
            /\ dmn' = [dmn EXCEPT !.state = IF PPAfterSend(pp).status = "ok"
                                            THEN "loop" ELSE "pp"]
            /\ ps_emitted' = Append(ps_emitted, PPMessage(pp))
            /\ IF Accepts(sub, PPMessage(pp))
               THEN /\ sub_queue' = sub_queue \o PPMessage(pp)
                    /\ sub_inlog' = Append(sub_inlog, PPMessage(pp))
               ELSE UNCHANGED <<sub_queue, sub_inlog>>
            /\ UNCHANGED ps_logged
    /\ UNCHANGED <<ps_opts, prod, push, pipe, ps_published, ps_pulled,
                   ps_calls>>
    /\ UNCHANGED <<sub, cons, sub_delivered, sub_decoded, closelog>>
    /\ UNCHANGED <<rcVars, recvVars, rsVars, utilVars>>

\* publish_daemon: the io loop has stopped, `finally: self.close()`; and
\* any later close() on the daemon's copy
DaemonCloseCall ==
    /\ dmn' = DaemonClose(dmn)
    /\ closelog' = NoteClose("daemon", DaemonCloseOps(dmn))
    /\ UNCHANGED <<ps_opts, prod, push, pipe, pp, ps_published, ps_pulled,
                   ps_emitted, ps_logged, ps_calls>>
    /\ UNCHANGED <<sub, cons, sub_queue, sub_inlog, sub_delivered,
                   sub_decoded>>
    /\ UNCHANGED <<rcVars, recvVars, rsVars, utilVars>>

(***************************************************************************)
(* RequestServer: the broker process (zmq_device).  Python runs a signal   *)
(* handler in the main thread, between two instructions of whatever runs   *)
(* there, a handler included: brk.frames is the stack of handler           *)
(* invocations, the last one running, and the code below it is suspended.  *)
(* A blocking library call (zmq.device, context.term) that a signal        *)
(* interrupts runs the handler before it returns.  The options are those   *)
(* of a broker without socket monitor.                                     *)
(***************************************************************************)
RSClients == {1, 2}
RSWorkers == {"w1", "w2"}

\* the process has not exited
NoExit == -1
\* salt.defaults.exitcodes.EX_OK
EX_OK == 0
\* the exit code of a process that an uncaught exception ends
EX_UNCAUGHT == 1

\* the broker process at the entry of zmq_device, its handlers installed
BrokerNew ==
    [pc |-> "setup", context |-> "none", clients |-> "none",
     workers |-> "none", closing |-> FALSE, event |-> FALSE,
     frames |-> <<>>, signals |-> 0, eintr |-> 0, exit |-> NoExit]

\* the socket exists and is not closed
SockOpen(sock) == sock \in {"open", "bound"}

\* the handler invocation that runs
TopFrame(B) == B.frames[Len(B.frames)]
SetTop(B, pos) == [B EXCEPT !.frames[Len(B.frames)] = pos]

\* zmq_device: the context and the ROUTER socket
BrkRouter ==
    /\ brk.pc = "setup" /\ brk.frames = <<>>
    /\ brk' = [brk EXCEPT !.pc = "router", !.context = "live",
                          !.clients = "open"]
    /\ UNCHANGED <<dev, wrk, rs_log>>
    /\ UNCHANGED <<rcVars, subVars, psVars, recvVars, utilVars>>

\* zmq_device: the DEALER socket
BrkDealer ==
    /\ brk.pc = "router" /\ brk.frames = <<>>
    /\ brk' = [brk EXCEPT !.pc = "dealer", !.workers = "open"]
    /\ UNCHANGED <<dev, wrk, rs_log>>
    /\ UNCHANGED <<rcVars, subVars, psVars, recvVars, utilVars>>

\* zmq_device: the two binds
BrkBind ==
    /\ brk.pc = "dealer" /\ brk.frames = <<>>
    /\ brk' = [brk EXCEPT !.pc = "bound", !.clients = "bound",
                          !.workers = "bound"]
    /\ UNCHANGED <<dev, wrk, rs_log>>
    /\ UNCHANGED <<rcVars, subVars, psVars, recvVars, utilVars>>

\* zmq_device: the head of `while True`: break when a socket is closed,
\* else enter zmq.device
BrkLoop ==
    /\ brk.pc \in {"bound", "loop"} /\ brk.frames = <<>>
    /\ brk' = [brk EXCEPT !.pc = IF brk.clients = "closed"
                                    \/ brk.workers = "closed"
                                 THEN "term" ELSE "device"]
    /\ UNCHANGED <<dev, wrk, rs_log>>
    /\ UNCHANGED <<rcVars, subVars, psVars, recvVars, utilVars>>

\* an EINTR that ends the loop
BrkInterrupted_Breaks ==
    /\ brk.pc = "device" /\ brk.frames = <<>>
    /\ brk.eintr < MaxEintr
    /\ brk' = [brk EXCEPT !.pc = "term", !.eintr = @ + 1]
    /\ UNCHANGED <<dev, wrk, rs_log>>
    /\ UNCHANGED <<rcVars, subVars, psVars, recvVars, utilVars>>

\* zmq.device raises ZMQError with errno EINTR: `continue`
BrkInterrupted ==
    /\ brk.pc = "device" /\ brk.frames = <<>>
    /\ brk.eintr < MaxEintr
    /\ brk' = [brk EXCEPT !.pc = "loop", !.eintr = @ + 1]
    /\ UNCHANGED <<dev, wrk, rs_log>>
    /\ UNCHANGED <<rcVars, subVars, psVars, recvVars, utilVars>>

\* zmq.device raises ZMQError with another errno: `raise`, the exception
\* leaves zmq_device and ends the process
BrkDeviceError ==
    /\ brk.pc = "device" /\ brk.frames = <<>>
    /\ brk' = [brk EXCEPT !.pc = "exited", !.exit = EX_UNCAUGHT]
    /\ UNCHANGED <<dev, wrk, rs_log>>
    /\ UNCHANGED <<rcVars, subVars, psVars, recvVars, utilVars>>

\* zmq_device: context.term() after the loop returns once every socket of
\* the context is closed, and the process ends; it blocks while one is open
BrkTerm ==
    /\ brk.pc = "term" /\ brk.frames = <<>>
    /\ ~SockOpen(brk.clients) /\ ~SockOpen(brk.workers)
    /\ brk' = [brk EXCEPT !.pc = "exited", !.context = "term",
                          !.exit = EX_OK]
    /\ UNCHANGED <<dev, wrk, rs_log>>
    /\ UNCHANGED <<rcVars, subVars, psVars, recvVars, utilVars>>

\* a SIGINT or SIGTERM is delivered: _handle_signals is entered
BrkSignal ==
    /\ brk.pc # "exited"
    /\ brk.signals < MaxSignals
    /\ brk' = [brk EXCEPT !.signals = @ + 1,
                          !.frames = Append(@, "close")]
    /\ UNCHANGED <<dev, wrk, rs_log>>
    /\ UNCHANGED <<rcVars, subVars, psVars, recvVars, utilVars>>

\* _handle_signals: self.close() up to the sockets: return when _closing
\* is set, else set it and the event
HandlerEnter(B) ==
    IF B.closing
    THEN SetTop(B, "exit")
    ELSE [SetTop(B, "clients") EXCEPT !.closing = TRUE, !.event = TRUE]

\* close(): `if hasattr(self, "clients") and self.clients.closed is False`
HandlerClients(B) ==
    [SetTop(B, "workers") EXCEPT
        !.clients = IF SockOpen(@) THEN "closed" ELSE @]

\* close(): the same for workers; the broker has no stream, no _socket, no
\* context attribute and no task
HandlerWorkers(B) ==
    [SetTop(B, "exit") EXCEPT
        !.workers = IF SockOpen(@) THEN "closed" ELSE @]

\* sys.exit(EX_OK): SystemExit unwinds every handler invocation and the
\* code they interrupted; zmq_device catches it around zmq.device only
\* (`break`, then context.term()), elsewhere it ends the process
HandlerExit(B) ==
    IF B.pc = "device"
    THEN [B EXCEPT !.frames = <<>>, !.pc = "term"]
    ELSE [B EXCEPT !.frames = <<>>, !.pc = "exited", !.exit = EX_OK]

\* the running handler invocation takes its next step
BrkHandler ==
    /\ brk.frames # <<>>
    /\ brk' = CASE TopFrame(brk) = "close" -> HandlerEnter(brk)
                 [] TopFrame(brk) = "clients" -> HandlerClients(brk)
                 [] TopFrame(brk) = "workers" -> HandlerWorkers(brk)
                 [] TopFrame(brk) = "exit" -> HandlerExit(brk)
    /\ UNCHANGED <<dev, wrk, rs_log>>
    /\ UNCHANGED <<rcVars, subVars, psVars, recvVars, utilVars>>

(***************************************************************************)
(* RequestServer: the sockets of the broker and the queue device.  A REQ   *)
(* client sends [delimiter, payload]; the ROUTER socket puts the identity  *)
(* of the sending connection in front of what it receives and, on send,    *)
(* takes the first frame as the identity of the connection to send to; the *)
(* DEALER socket passes frames unchanged, to any connected worker; a REP   *)
(* socket keeps the frames up to the delimiter of a request and puts them  *)
(* in front of its reply.                                                  *)
(***************************************************************************)
\* the identity the ROUTER socket gives to the connection of client c
IdFrame(c) == <<"id", c>>
\* the empty delimiter frame
Delimiter == EmptyBytes
\* bytes that are no serialized payload
Junk == <<"b", "junk">>

\* salt.payload.loads succeeds on the bytes b; it raises
\* SaltDeserializationError otherwise
Deserializable_Any(b) == TRUE

Deserializable(b) == b[1] = "ser"

\* the reply of handle_message to a request it cannot decode
BadLoad == <<"msg", <<"bad load", 0>>>>

DevInit ==
    [router_in |-> <<>>,
     dealer_out |-> [w \in RSWorkers |-> <<>>],
     dealer_in |-> <<>>,
     client_in |-> [c \in RSClients |-> <<>>],
     sent |-> [c \in RSClients |-> <<>>],
     busy |-> [c \in RSClients |-> FALSE],
     nreq |-> 0]

\* a worker before post_fork
WorkerNew ==
    [pc |-> "new", context |-> "none", sock |-> "none", fsm |-> "recv",
     envelope |-> <<>>, request |-> EmptyBytes, reply |-> BadLoad,
     event |-> FALSE, closing |-> FALSE, closed_from |-> ""]

RSInit ==
    /\ brk = BrokerNew
    /\ dev = DevInit
    /\ wrk = [w \in RSWorkers |-> WorkerNew]
    /\ rs_log = [handled |-> <<>>, logged |-> 0]

\* a client sends a request on its REQ socket (one request at a time): it
\* reaches the ROUTER socket of the broker
ClientSend(c, junk) ==
    /\ ~dev.busy[c]
    /\ dev.nreq < MaxReq
    /\ LET payload == IF junk THEN Junk ELSE dumps(Load(dev.nreq + 1))
       IN  dev' = [dev EXCEPT
                      !.nreq = @ + 1,
                      !.busy[c] = TRUE,
                      !.sent[c] = Append(@, payload),
                      !.router_in =
                          Append(@, <<IdFrame(c), Delimiter, payload>>)]
    /\ UNCHANGED <<brk, wrk, rs_log>>
    /\ UNCHANGED <<rcVars, subVars, psVars, recvVars, utilVars>>

\* zmq.device runs on the two bound sockets
DeviceRuns ==
    /\ brk.pc = "device" /\ brk.frames = <<>>
    /\ brk.clients = "bound" /\ brk.workers = "bound"

\* the device takes a message from the ROUTER socket and sends it on the
\* DEALER socket, which passes it to a connected worker
DevFront(w) ==
    /\ DeviceRuns
    /\ dev.router_in # <<>>
    /\ wrk[w].sock = "open"
    /\ dev' = [dev EXCEPT !.router_in = Tail(@),
                          !.dealer_out[w] = Append(@, Head(dev.router_in))]
    /\ UNCHANGED <<brk, wrk, rs_log>>
    /\ UNCHANGED <<rcVars, subVars, psVars, recvVars, utilVars>>

\* a ROUTER socket that sends to one connection whatever the first frame
RouteTo_First(msg) == CHOOSE c \in RSClients : \A d \in RSClients : c <= d

\* the connection a ROUTER socket sends msg to: its first frame
RouteTo(msg) == msg[1][2]

\* the device takes a message from the DEALER socket and sends it on the
\* ROUTER socket: the rest of the message goes to the connection the first
\* frame names, whose REQ socket may then send again
DevBack ==
    /\ DeviceRuns
    /\ dev.dealer_in # <<>>
    /\ LET msg == Head(dev.dealer_in)
           c == RouteTo(msg)
       IN  dev' = [dev EXCEPT !.dealer_in = Tail(@),
                              !.client_in[c] = Append(@, Tail(msg)),
                              !.busy[c] = FALSE]
    /\ UNCHANGED <<brk, wrk, rs_log>>
    /\ UNCHANGED <<rcVars, subVars, psVars, recvVars, utilVars>>

(***************************************************************************)
(* RequestServer: a worker (post_fork, request_handler, handle_message)    *)
(***************************************************************************)
\* post_fork: the context, the REP socket, its connect, and the callback
\* that will create the request-handling task
PostFork(w) ==
    /\ wrk[w].pc = "new"
    /\ wrk' = [wrk EXCEPT ![w] = [@ EXCEPT !.pc = "posted",
                                           !.context = "live",
                                           !.sock = "open"]]
    /\ UNCHANGED <<brk, dev, rs_log>>
    /\ UNCHANGED <<rcVars, subVars, psVars, recvVars, utilVars>>

\* the callback runs: the task of request_handler is created and added to
\* self.tasks
WStart(w) ==
    /\ wrk[w].pc = "posted"
    /\ wrk' = [wrk EXCEPT ![w].pc = "head"]
    /\ UNCHANGED <<brk, dev, rs_log>>
    /\ UNCHANGED <<rcVars, subVars, psVars, recvVars, utilVars>>

\* request_handler at `while not self._event.is_set()`, and into
\* `await asyncio.wait_for(self._socket.recv(), 0.3)`
WHead(w) ==
    /\ wrk[w].pc = "head"
    /\ wrk' = [wrk EXCEPT ![w].pc = IF wrk[w].event THEN "done" ELSE "recv"]
    /\ UNCHANGED <<brk, dev, rs_log>>
    /\ UNCHANGED <<rcVars, subVars, psVars, recvVars, utilVars>>

\* the receive completes with a request: a REP socket that has received
\* gives no further request before it has sent a reply
WRecv(w) ==
    /\ wrk[w].pc = "recv"
    /\ wrk[w].sock = "open"
    /\ wrk[w].fsm = "recv"
    /\ dev.dealer_out[w] # <<>>
    /\ LET msg == Head(dev.dealer_out[w])
       IN  wrk' = [wrk EXCEPT ![w] = [@ EXCEPT !.pc = "handle",
                                              !.fsm = "send",
                                              !.envelope = <<msg[1], msg[2]>>,
                                              !.request = msg[3]]]
    /\ dev' = [dev EXCEPT !.dealer_out[w] = Tail(@)]
    /\ UNCHANGED <<brk, rs_log>>
    /\ UNCHANGED <<rcVars, subVars, psVars, recvVars, utilVars>>

\* the 0.3 s of wait_for elapse without a request: `continue`
WTimeout(w) ==
    /\ wrk[w].pc = "recv"
    /\ wrk' = [wrk EXCEPT ![w].pc = "head"]
    /\ UNCHANGED <<brk, dev, rs_log>>
    /\ UNCHANGED <<rcVars, subVars, psVars, recvVars, utilVars>>

\* handle_message: a payload that cannot be decoded is answered with
\* BadLoad, the handler not called; else the handler is called with the
\* decoded payload and returns the reply (raises: the exception reaches
\* request_handler, which logs it: `continue`)
WHandle(w, raises) ==
    /\ wrk[w].pc = "handle"
    /\ IF ~Deserializable(wrk[w].request)
       THEN /\ ~raises
            /\ wrk' = [wrk EXCEPT ![w] = [@ EXCEPT !.pc = "send",
                                                   !.reply = BadLoad]]
            /\ rs_log' = rs_log
       ELSE /\ rs_log' =
                  [rs_log EXCEPT
                      !.handled = Append(@, <<w, loads(wrk[w].request)>>),
                      !.logged = IF raises THEN @ + 1 ELSE @]
            /\ wrk' = [wrk EXCEPT ![w] =
                          IF raises
                          THEN [@ EXCEPT !.pc = "head"]
                          ELSE [@ EXCEPT
                                   !.pc = "send",
                                   !.reply = Handler(loads(wrk[w].request))]]
    /\ UNCHANGED <<brk, dev>>
    /\ UNCHANGED <<rcVars, subVars, psVars, recvVars, utilVars>>

\* `await self._socket.send(self.encode_payload(reply))`: the REP socket
\* puts the frames it kept in front of the reply (raises: encode_payload
\* fails, nothing is sent, request_handler logs: `continue`)
WSend(w, raises) ==
    /\ wrk[w].pc = "send"
    /\ IF raises
       THEN /\ wrk' = [wrk EXCEPT ![w].pc = "head"]
            /\ rs_log' = [rs_log EXCEPT !.logged = @ + 1]
            /\ dev' = dev
       ELSE /\ wrk' = [wrk EXCEPT ![w] = [@ EXCEPT !.pc = "head",
                                                   !.fsm = "recv"]]
            /\ dev' = [dev EXCEPT !.dealer_in =
                          Append(@, wrk[w].envelope
                                    \o <<dumps(wrk[w].reply)>>)]
            /\ rs_log' = rs_log
    /\ UNCHANGED brk
    /\ UNCHANGED <<rcVars, subVars, psVars, recvVars, utilVars>>

\* the positions of a worker at which its request-handling task exists
\* and has not finished
TaskPcs == {"head", "recv", "handle", "send"}

\* a close that leaves the REP socket as it is
WClose_SocketLeft(w) ==
    /\ ~wrk[w].closing
    /\ wrk' = [wrk EXCEPT ![w] =
                  [@ EXCEPT !.closing = TRUE,
                            !.event = TRUE,
                            !.closed_from = wrk[w].pc,
                            !.context = IF @ = "live" THEN "term" ELSE @,
                            !.pc = IF @ \in TaskPcs THEN "cancelled" ELSE @]]
    /\ UNCHANGED <<brk, dev, rs_log>>
    /\ UNCHANGED <<rcVars, subVars, psVars, recvVars, utilVars>>

\* close in a worker process (which has no clients, workers or stream
\* attribute and no monitor): a second call returns at once; else the
\* flag and the event are set, the REP socket closed, the context
\* terminated and every task in self.tasks cancelled (closed_from keeps the
\* position at which close found the worker)
WClose(w) ==
    /\ ~wrk[w].closing
    /\ wrk' = [wrk EXCEPT ![w] =
                  [@ EXCEPT !.closing = TRUE,
                            !.event = TRUE,
                            !.closed_from = wrk[w].pc,
                            !.sock = IF @ = "open" THEN "closed" ELSE @,
                            !.context = IF @ = "live" THEN "term" ELSE @,
                            !.pc = IF @ \in TaskPcs THEN "cancelled" ELSE @]]
    /\ UNCHANGED <<brk, dev, rs_log>>
    /\ UNCHANGED <<rcVars, subVars, psVars, recvVars, utilVars>>

\* the cancelled task is resumed with CancelledError, which no except
\* clause of request_handler catches: the task is done
WCancelled(w) ==
    /\ wrk[w].pc = "cancelled"
    /\ wrk' = [wrk EXCEPT ![w].pc = "done"]
    /\ UNCHANGED <<brk, dev, rs_log>>
    /\ UNCHANGED <<rcVars, subVars, psVars, recvVars, utilVars>>

(***************************************************************************)
(* ZeroMQSocketMonitor.  Its owners (PublishClient._legacy_setup,          *)
(* PublishServer._get_sockets, RequestServer._start_zmq_monitor) start a   *)
(* monitor in the statement that follows its construction, with            *)
(* start_io_loop (the task consume) or with start_poll in a thread of its  *)
(* own.  mon.events is what waits on the monitor socket, mon.enabled       *)
(* whether the library still monitors the parent socket.                   *)
(***************************************************************************)
EVENT_MONITOR_STOPPED == "EVENT_MONITOR_STOPPED"
\* the events of a socket that are not the terminal one
SocketEvents == {"EVENT_CONNECTED", "EVENT_DISCONNECTED"}

\* __init__
MonNew ==
    [socket |-> TRUE, monitor_socket |-> TRUE, running |-> FALSE,
     mode |-> "none", pc |-> "idle", enabled |-> TRUE,
     events |-> <<>>, processed |-> <<>>, stops |-> 0]

MonInit == mon = MonNew

(***************************************************************************)
(* _get_master_uri.  Text is a sequence of pieces; an address is the piece *)
(* that spells it.                                                         *)
(***************************************************************************)
IPv4Addrs == {"1.2.3.4", "10.0.0.1"}
IPv6Addrs == {"::1", "fe80::1"}
\* ipaddress.ip_address(addr).version
IpVersion(addr) == IF addr \in IPv6Addrs THEN 6 ELSE 4

\* the values of master_ip, master_port, source_ip and source_port
MasterIps == {"1.2.3.4", "::1"}
MasterPorts == {"4506"}
SourceIps == {PyNone, "", "10.0.0.1", "fe80::1"}
SourcePorts == {PyNone, "0", "5000"}
\* LIBZMQ_VERSION_INFO and ZMQ_VERSION_INFO of the installed library
LibzmqVersions == {<<4, 1, 5>>, <<4, 1, 6>>, <<4, 3, 4>>, <<3, 2, 5>>}
PyzmqVersions == {<<16, 0, 0>>, <<16, 0, 1>>, <<25, 1, 0>>, <<15, 4, 0>>}

\* the comparison of two version tuples of Python
VersionGE(a, b) ==
    \/ a[1] > b[1]
    \/ a[1] = b[1] /\ a[2] > b[2]
    \/ a[1] = b[1] /\ a[2] = b[2] /\ a[3] >= b[3]

\* salt.utils.network.ip_bracket without brackets for any address
ip_bracket_Bare(addr) == <<addr>>

\* salt.utils.network.ip_bracket: brackets around an IPv6 literal
ip_bracket(addr) ==
    IF addr \in IPv6Addrs \cup {"::"} THEN <<"[", addr, "]">> ELSE <<addr>>

\* `LIBZMQ_VERSION_INFO >= (4, 1, 6) and ZMQ_VERSION_INFO >= (16, 0, 1)`
SourceSyntax(libzmq, pyzmq) ==
    VersionGE(libzmq, <<4, 1, 6>>) /\ VersionGE(pyzmq, <<16, 0, 1>>)

_get_master_uri(master_ip, master_port, source_ip, source_port, libzmq, pyzmq) ==
    LET dst == ip_bracket(master_ip) \o <<":", master_port>>
        master_uri == <<"tcp://">> \o dst
    IN  IF Truthy(source_ip) \/ Truthy(source_port)
        THEN IF SourceSyntax(libzmq, pyzmq)
             THEN IF Truthy(source_ip) /\ Truthy(source_port)
                  THEN <<"tcp://">> \o ip_bracket(source_ip)
                         \o <<":", source_port, ";">> \o dst
                  ELSE IF Truthy(source_ip)
                  THEN <<"tcp://">> \o ip_bracket(source_ip)
                         \o <<":", "0", ";">> \o dst
                  ELSE LET ip_any == IF IpVersion(master_ip) = 4
                                     THEN <<"0.0.0.0">>
                                     ELSE ip_bracket("::")
                       IN  <<"tcp://">> \o ip_any
                             \o <<":", source_port, ";">> \o dst
             ELSE master_uri
        ELSE master_uri

\* no call yet
UriIdle ==
    [called |-> FALSE, master_ip |-> "1.2.3.4", master_port |-> "4506",
     source_ip |-> PyNone, source_port |-> PyNone,
     libzmq |-> <<4, 3, 4>>, pyzmq |-> <<25, 1, 0>>, result |-> <<>>]

UriInit == uri = UriIdle

\* a call of _get_master_uri
GetMasterUri(master_ip, master_port, source_ip, source_port, libzmq, pyzmq) ==
    /\ uri' = [called |-> TRUE,
               master_ip |-> master_ip, master_port |-> master_port,
               source_ip |-> source_ip, source_port |-> source_port,
               libzmq |-> libzmq, pyzmq |-> pyzmq,
               result |-> _get_master_uri(master_ip, master_port, source_ip,
                                          source_port, libzmq, pyzmq)]
    /\ UNCHANGED <<rcVars, subVars, psVars, recvVars, rsVars, monVars>>

UtilInit == MonInit /\ UriInit

\* a stop that leaves the run flag as it is
Stop_FlagLeft(M) ==
    IF ~M.socket THEN M
    ELSE [M EXCEPT !.socket = FALSE,
                   !.monitor_socket = FALSE,
                   !.enabled = FALSE,
                   !.events = IF M.enabled
                              THEN Append(@, EVENT_MONITOR_STOPPED) ELSE @]

\* stop(): nothing when _socket is None; else disable_monitor on the
\* parent (the library then puts the terminal event on the monitor
\* socket; an error of a parent that is closed is swallowed), and the
\* three fields are reset
Stop(M) ==
    IF ~M.socket THEN M
    ELSE [M EXCEPT !.socket = FALSE,
                   !.running = FALSE,
                   !.monitor_socket = FALSE,
                   !.enabled = FALSE,
                   !.events = IF M.enabled
                              THEN Append(@, EVENT_MONITOR_STOPPED) ELSE @]

\* start_io_loop: the run flag is set and consume is spawned
MonStartIoLoop ==
    /\ mon.pc = "idle"
    /\ mon' = [mon EXCEPT !.running = TRUE, !.mode = "io", !.pc = "spawned"]
    /\ UNCHANGED <<rcVars, subVars, psVars, recvVars, rsVars, uriVars>>

\* threading.Thread(target=start_poll).start()
MonStartPoll ==
    /\ mon.pc = "idle"
    /\ mon' = [mon EXCEPT !.mode = "poll", !.pc = "spawned"]
    /\ UNCHANGED <<rcVars, subVars, psVars, recvVars, rsVars, uriVars>>

\* the library reports an event of the parent socket
MonEmit(e) ==
    /\ mon.enabled
    /\ Len(mon.events) + Len(mon.processed) < MaxEvents
    /\ mon' = [mon EXCEPT !.events = Append(@, e)]
    /\ UNCHANGED <<rcVars, subVars, psVars, recvVars, rsVars, uriVars>>

\* the parent socket is closed while it is monitored: the library puts the
\* terminal event on the monitor socket
MonParentClosed ==
    /\ mon.enabled
    /\ mon' = [mon EXCEPT !.enabled = FALSE,
                          !.events = Append(@, EVENT_MONITOR_STOPPED)]
    /\ UNCHANGED <<rcVars, subVars, psVars, recvVars, rsVars, uriVars>>

\* the owner of the monitor calls stop()
MonStopCall ==
    /\ mon.mode # "none"
    /\ mon.stops < MaxStops
    /\ mon' = [Stop(mon) EXCEPT !.stops = @ + 1]
    /\ UNCHANGED <<rcVars, subVars, psVars, recvVars, rsVars, uriVars>>

\* the head of the loop, and into poll(): consume tests the run flag,
\* start_poll tests _monitor_socket; consume with _monitor_socket None
\* raises AttributeError, which it logs before it breaks
MonHead ==
    /\ mon.pc \in {"spawned", "head"}
    /\ mon' = [mon EXCEPT !.pc =
                  IF mon.mode = "io" /\ ~mon.running THEN "done"
                  ELSE IF ~mon.monitor_socket THEN "done"
                  ELSE "poll"]
    /\ UNCHANGED <<rcVars, subVars, psVars, recvVars, rsVars, uriVars>>

\* poll() returns with an event waiting, and recv_multipart is called on
\* self._monitor_socket: AttributeError when stop has reset it meanwhile,
\* which ends either loop
MonPolled ==
    /\ mon.pc = "poll"
    /\ mon.events # <<>>
    /\ mon' = [mon EXCEPT !.pc = IF mon.monitor_socket THEN "recv"
                                 ELSE "done"]
    /\ UNCHANGED <<rcVars, subVars, psVars, recvVars, rsVars, uriVars>>

\* recv_multipart returns the event and monitor_callback processes it:
\* the terminal event calls stop()
MonCallback ==
    /\ mon.pc = "recv"
    /\ mon.events # <<>>
    /\ LET evt == Head(mon.events)
           M == [mon EXCEPT !.events = Tail(@),
                            !.processed = Append(@, evt),
                            !.pc = "head"]
       IN  mon' = IF evt = EVENT_MONITOR_STOPPED THEN Stop(M) ELSE M
    /\ UNCHANGED <<rcVars, subVars, psVars, recvVars, rsVars, uriVars>>

(***************************************************************************)
(* Specifications                                                          *)
(***************************************************************************)
RCNext ==
    \/ \E c \in Calls : SendStart(c)
    \/ \E c \in Calls, f1, f2 \in BOOLEAN : Acquire(c, f1, f2)
    \/ \E c \in Calls, f1, f2 \in BOOLEAN : Wake(c, f1, f2)
    \/ \E s \in SockIds : Server(s)
    \/ \E c \in Calls : RecvDone(c)
    \/ \E c \in Calls : RecvFail(c)
    \/ \E c \in Calls, f \in BOOLEAN : Resume1(c, f)
    \/ \E c \in Calls : Resume2(c)
    \/ \E c \in Calls : Timeout(c)
    \/ \E c \in Calls : SendTimeout(c)
    \/ \E c \in Calls : SendExcept(c)
    \/ UserClose
    \/ UserConnect

\* a RequestClient under concurrent send calls, timeouts, transport errors
\* and close/connect calls of the application
InitRC ==
    RCInit /\ SubInit /\ PSInit /\ ps_opts = DefaultPSOpts /\ RecvInit /\ RSInit /\ UtilInit
SpecRC == InitRC /\ [][RCNext]_vars

\* concurrent send calls on a reliable transport, with deadlines: no send
\* or receive fails by itself and the application calls neither close nor
\* connect, so that a call can only be disturbed by another call
SendNext ==
    \/ \E c \in Calls : SendStart(c)
    \/ \E c \in Calls : Acquire(c, FALSE, FALSE)
    \/ \E c \in Calls : Wake(c, FALSE, FALSE)
    \/ \E s \in SockIds : Server(s)
    \/ \E c \in Calls : RecvDone(c)
    \/ \E c \in Calls : Resume1(c, FALSE)
    \/ \E c \in Calls : Resume2(c)
    \/ \E c \in Calls : Timeout(c)
    \/ \E c \in Calls : SendTimeout(c)
    \/ \E c \in Calls : SendExcept(c)

InitSend ==
    RCInit /\ SubInit /\ PSInit /\ ps_opts = DefaultPSOpts /\ RecvInit /\ RSInit /\ UtilInit
SpecSend == InitSend /\ [][SendNext]_vars

\* one send call in flight on a transport that may fail, and close and
\* connect calls of the application at any point
InFlightNext ==
    \/ SendStart(1)
    \/ \E f1, f2 \in BOOLEAN : Acquire(1, f1, f2)
    \/ \E s \in SockIds : Server(s)
    \/ RecvDone(1)
    \/ RecvFail(1)
    \/ \E f \in BOOLEAN : Resume1(1, f)
    \/ Resume2(1)
    \/ Timeout(1)
    \/ SendTimeout(1)
    \/ SendExcept(1)
    \/ UserClose
    \/ UserConnect

InitInFlight ==
    RCInit /\ SubInit /\ PSInit /\ ps_opts = DefaultPSOpts /\ RecvInit /\ RSInit /\ UtilInit
SpecInFlight == InitInFlight /\ [][InFlightNext]_vars

PCNext ==
    \/ \E h \in Hosts, p \in Ports, a \in Paths, o \in SubOpts :
          PCNew(h, p, a, o)
    \/ \E m \in MessageLists : PCDecode(m)
    \/ PCConnect
    \/ PCCloseCall

\* a PublishClient from its construction: its endpoint arguments and
\* options, _decode_messages, connect and close
InitPC ==
    RCInit /\ SubInit /\ PSInit /\ ps_opts = DefaultPSOpts /\ RecvInit /\ RSInit /\ UtilInit
SpecPC == InitPC /\ [][PCNext]_vars

\* the subscriber of the publish pipeline: constructed on an IPC path
PipeSubInit ==
    /\ \E o \in SubOpts :
          /\ o.id = "m1"
          /\ ~o.zmq_monitor
          /\ sub = PCConstruct(PyNone, PyNone, "/pub.ipc", o)
    /\ cons = [k \in ConsIds |-> ConsFree]
    /\ sub_queue = <<>>
    /\ sub_inlog = <<>>
    /\ sub_delivered = <<>>
    /\ sub_decoded = NoDecode
    /\ closelog = NoCloses

PSNext ==
    \/ ProducerConnect
    \/ \E p \in Payloads : Publish(p)
    \/ ProducerClose
    \/ \E b \in {"ok", "pub", "pull"} : DaemonStart(b)
    \/ \E i \in PushIds : DaemonRecv(i)
    \/ \E f \in BOOLEAN : PPSend(f)
    \/ DaemonCloseCall

\* a PublishServer: the producer (connect, publish, close) and the daemon
\* started through pre_fork (publisher, publish_payload, close)
InitPS == RCInit /\ SubInit /\ PSInit /\ RecvInit /\ RSInit /\ UtilInit
SpecPS == InitPS /\ [][PSNext]_vars

\* the same with the event loop of the daemon running: a send of
\* publish_payload returns or raises, and the loop of publisher, back at
\* its receive again and again, gets what waits on each connection of the
\* PULL socket (which takes from its connections in turn)
SpecPSLive ==
    /\ InitPS /\ [][PSNext]_vars
    /\ WF_vars(\E f \in BOOLEAN : PPSend(f))
    /\ \A i \in PushIds : SF_vars(DaemonRecv(i))

\* the daemon started through pre_fork, fed by a producer, and a caller of
\* publish_payload that chooses the topic list
ForwardNext ==
    \/ \E p \in Payloads : Publish(p)
    \/ \E b \in {"ok", "pub", "pull"} : DaemonStart(b)
    \/ \E i \in PushIds : DaemonRecv(i)
    \/ \E p \in Payloads, tl \in TopicLists : PPCall(p, tl)
    \/ \E f \in BOOLEAN : PPSend(f)

InitForward == RCInit /\ SubInit /\ PSInit /\ RecvInit /\ RSInit /\ UtilInit
SpecForward == InitForward /\ [][ForwardNext]_vars

PPNext ==
    \/ \E b \in {"ok", "pub", "pull"} : DaemonStart(b)
    \/ \E p \in Payloads, tl \in TopicLists : PPCall(p, tl)
    \/ \E f \in BOOLEAN : PPSend(f)
    \/ PCConnect
    \/ OnRecv("cb1")
    \/ \E k \in ConsIds : ConsStart(k)
    \/ \E k \in ConsIds : ConsRecv(k)
    \/ \E k \in ConsIds : ConsCbDone(k)
    \/ \E k \in ConsIds : ConsRecvErr(k)

\* publish_payload called with any topic list on a running daemon, and one
\* subscriber with its consumer tasks
InitPP == RCInit /\ PipeSubInit /\ PSInit /\ RecvInit /\ RSInit /\ UtilInit
SpecPP == InitPP /\ [][PPNext]_vars

PubNext ==
    \/ \E p \in Payloads : Publish(p)
    \/ \E b \in {"ok", "pub", "pull"} : DaemonStart(b)
    \/ \E i \in PushIds : DaemonRecv(i)
    \/ \E f \in BOOLEAN : PPSend(f)
    \/ PCConnect
    \/ OnRecv("cb1")
    \/ \E k \in ConsIds : ConsStart(k)
    \/ \E k \in ConsIds : ConsRecv(k)
    \/ \E k \in ConsIds : ConsCbDone(k)
    \/ \E k \in ConsIds : ConsRecvErr(k)

ConsNext ==
    \/ PCConnect
    \/ PCCloseCall
    \/ \E cb \in Callbacks : OnRecv(cb)
    \/ OnRecvNone
    \/ \E f \in SerPayloads : SubArrive(f)
    \/ \E k \in ConsIds : ConsStart(k)
    \/ \E k \in ConsIds : ConsRecv(k)
    \/ \E k \in ConsIds : ConsCbDone(k)
    \/ \E k \in ConsIds : ConsCbRaise(k)
    \/ \E k \in ConsIds : ConsRecvErr(k)

\* the subscriber of an unfiltered publisher
ConsSubInit ==
    /\ sub = PCConstruct(PyNone, PyNone, "/pub.ipc",
                         [id |-> "m1", role |-> "minion",
                          zmq_filtering |-> FALSE, zmq_monitor |-> FALSE])
    /\ cons = [k \in ConsIds |-> ConsFree]
    /\ sub_queue = <<>>
    /\ sub_inlog = <<>>
    /\ sub_delivered = <<>>
    /\ sub_decoded = NoDecode
    /\ closelog = NoCloses

\* a PublishClient and its consumer tasks: on_recv with a callback and with
\* None, the messages that arrive, callbacks that return or raise, receive
\* errors, connect and close
InitCons ==
    /\ RCInit /\ ConsSubInit /\ PSInit /\ ps_opts = DefaultPSOpts
    /\ RecvInit /\ RSInit /\ UtilInit
SpecCons == InitCons /\ [][ConsNext]_vars

CloseNext ==
    \/ PCConnect
    \/ PCCloseCall
    \/ \E cb \in Callbacks : OnRecv(cb)
    \/ \E f \in SerPayloads : SubArrive(f)
    \/ \E k \in ConsIds : ConsStart(k)
    \/ \E k \in ConsIds : ConsRecvReady(k)
    \/ \E k \in ConsIds : ConsResume(k)
    \/ \E k \in ConsIds : ConsCbDone(k)
    \/ \E k \in ConsIds : ConsCbRaise(k)

\* a PublishClient with consumer tasks that is closed at any point, each
\* receive of a consumer in its two steps; the event loop runs the tasks
\* that can take a step, and callbacks return or raise
InitClose ==
    /\ RCInit /\ ConsSubInit /\ PSInit /\ ps_opts = DefaultPSOpts
    /\ RecvInit /\ RSInit /\ UtilInit
SpecClose ==
    /\ InitClose /\ [][CloseNext]_vars
    /\ \A k \in ConsIds :
          /\ WF_vars(ConsStart(k))
          /\ WF_vars(ConsResume(k))
          /\ WF_vars(ConsCbDone(k) \/ ConsCbRaise(k))

RecvNext ==
    \/ PCConnect
    \/ \E f \in SerPayloads : SubArrive(f)
    \/ \E t \in Timeouts : RecvCall(t)
    \/ RecvArrived
    \/ RecvDeadline
    \/ OnRecv("cb1")
    \/ \E k \in ConsIds : ConsStart(k)
    \/ \E k \in ConsIds : ConsRecv(k)
    \/ \E k \in ConsIds : ConsCbDone(k)

\* a PublishClient whose recv is called by a task of the application, with
\* any timeout, while messages arrive and consumer tasks may run
InitRecv ==
    /\ RCInit /\ ConsSubInit /\ PSInit /\ ps_opts = DefaultPSOpts
    /\ RecvInit /\ RSInit /\ UtilInit
SpecRecv == InitRecv /\ [][RecvNext]_vars

BrokerNext ==
    \/ BrkRouter
    \/ BrkDealer
    \/ BrkBind
    \/ BrkLoop
    \/ BrkInterrupted
    \/ BrkTerm
    \/ BrkSignal
    \/ BrkHandler

\* the broker process from the entry of zmq_device, and the signals it is
\* sent
InitBroker ==
    /\ RCInit /\ SubInit /\ PSInit /\ ps_opts = DefaultPSOpts
    /\ RecvInit /\ RSInit /\ UtilInit
SpecBroker == InitBroker /\ [][BrokerNext]_vars

DeviceNext ==
    \/ BrkRouter
    \/ BrkDealer
    \/ BrkBind
    \/ BrkLoop
    \/ BrkInterrupted
    \/ BrkDeviceError
    \/ BrkTerm
    \/ BrkSignal
    \/ BrkHandler

\* the broker process with a queue device that may fail: with EINTR, or
\* with any other error of the library
InitDevice ==
    /\ RCInit /\ SubInit /\ PSInit /\ ps_opts = DefaultPSOpts
    /\ RecvInit /\ RSInit /\ UtilInit
SpecDevice == InitDevice /\ [][DeviceNext]_vars

ServeNext ==
    \/ BrkRouter
    \/ BrkDealer
    \/ BrkBind
    \/ BrkLoop
    \/ \E c \in RSClients, j \in BOOLEAN : ClientSend(c, j)
    \/ \E w \in RSWorkers : DevFront(w)
    \/ DevBack
    \/ \E w \in RSWorkers : PostFork(w)
    \/ \E w \in RSWorkers : WStart(w)
    \/ \E w \in RSWorkers : WHead(w)
    \/ \E w \in RSWorkers : WRecv(w)
    \/ \E w \in RSWorkers : WTimeout(w)
    \/ \E w \in RSWorkers, r \in BOOLEAN : WHandle(w, r)
    \/ \E w \in RSWorkers, r \in BOOLEAN : WSend(w, r)
    \/ \E w \in RSWorkers : WClose(w)
    \/ \E w \in RSWorkers : WCancelled(w)

\* a RequestServer that serves: the broker up to its device, the workers,
\* and clients that send requests, some of them not decodable; handlers
\* and sends may raise
InitServe ==
    /\ RCInit /\ SubInit /\ PSInit /\ ps_opts = DefaultPSOpts
    /\ RecvInit /\ RSInit /\ UtilInit
SpecServe == InitServe /\ [][ServeNext]_vars

\* the same with the event loop of each worker running: a callback that
\* was scheduled runs, and a task that can take a step takes it
SpecServeLive ==
    /\ InitServe /\ [][ServeNext]_vars
    /\ \A w \in RSWorkers :
          /\ WF_vars(WStart(w))
          /\ WF_vars(WHead(w))
          /\ WF_vars(WCancelled(w))

MonNext ==
    \/ MonStartIoLoop
    \/ MonStartPoll
    \/ \E e \in SocketEvents : MonEmit(e)
    \/ MonParentClosed
    \/ MonStopCall
    \/ MonHead
    \/ MonPolled
    \/ MonCallback

\* a socket monitor from its construction on: started in either way, fed
\* with events by the library, and stopped by its owner or by the terminal
\* event; the loop of the monitor goes on whenever it can
InitMon ==
    /\ RCInit /\ SubInit /\ PSInit /\ ps_opts = DefaultPSOpts
    /\ RecvInit /\ RSInit /\ UtilInit
SpecMon ==
    /\ InitMon /\ [][MonNext]_vars
    /\ WF_vars(MonHead) /\ WF_vars(MonPolled) /\ WF_vars(MonCallback)

UriNext ==
    \E mi \in MasterIps, mp \in MasterPorts, si \in SourceIps,
       sp \in SourcePorts, lz \in LibzmqVersions, pz \in PyzmqVersions :
        GetMasterUri(mi, mp, si, sp, lz, pz)

\* calls of _get_master_uri with any arguments, under any installed
\* version of the library
InitUri ==
    /\ RCInit /\ SubInit /\ PSInit /\ ps_opts = DefaultPSOpts
    /\ RecvInit /\ RSInit /\ UtilInit
SpecUri == InitUri /\ [][UriNext]_vars

\* the publish pipeline: a producer, the publisher daemon started through
\* pre_fork and one subscriber with its consumer tasks
InitPub == RCInit /\ PipeSubInit /\ PSInit /\ RecvInit /\ RSInit /\ UtilInit
SpecPub == InitPub /\ [][PubNext]_vars

(***************************************************************************)
(* Properties of RequestClient                                             *)
(***************************************************************************)
\* the calls between the start of their socket send and the end of their
\* socket recv
InFlight == {c \in Calls : rc_pc[c] \in {"recv1", "recv2"}}

\* the sockets call c has transmitted on
SocketsOf(c) == {rc_sent[c][i][1] : i \in 1 .. Len(rc_sent[c])}

\* C1: at most one send call of a RequestClient is between its socket send
\* and the end of its socket recv, and that call holds the lock
C1_OneInFlight ==
    /\ Cardinality(InFlight) <= 1
    /\ InFlight # {} => rc_locked

\* C1 witness: one call awaits its reply while the other queues for the lock
C1_Witness ==
    \E c, d \in Calls :
        /\ rc_pc[c] = "recv1" /\ rc_fut[c] = "pending"
        /\ rc_pc[d] = "wait"

\* C2: a send call that returns a value returns the reply the server
\* produced for that call's own request
C2_OwnReply ==
    \A c \in Calls :
        rc_res[c].kind = "ok" => rc_res[c].val = Handler(Load(c))

\* C2 witness: two calls that contended for the lock have both returned,
\* having used the same socket one after the other
C2_Witness ==
    /\ \A c \in Calls : rc_res[c].kind = "ok"
    /\ \E c, d \in Calls : c # d /\ SocketsOf(c) \cap SocketsOf(d) # {}

\* C3: a transport error on the first send or recv of a call makes the
\* client close the socket, reconnect and retransmit the same request once,
\* holding the lock; a call makes at most two transmissions and one
\* reconnect, and a failure of the retry is not retried
C3_RetryOnce ==
    \A c \in Calls :
        /\ rc_tries[c] <= 2
        /\ rc_reconn[c] <= 1
        /\ Len(rc_sent[c]) <= rc_tries[c]
        /\ rc_tries[c] = 2 => rc_reconn[c] = 1
        /\ \A i \in 1 .. Len(rc_sent[c]) : rc_sent[c][i][2] = dumps(Load(c))
        /\ Len(rc_sent[c]) = 2 =>
              /\ rc_sent[c][1][1] < rc_sent[c][2][1]
              /\ rc_sent[c][1][1] \notin rc_open
        /\ rc_pc[c] = "recv2" =>
              /\ rc_locked
              /\ rc_reconn[c] = 1
              /\ rc_sent[c] # <<>>
              /\ rc_sent[c][Len(rc_sent[c])][1] = rc_futsock[c]
        /\ rc_pc[c] = "recv1" => rc_reconn[c] = 0 /\ Len(rc_sent[c]) = 1

\* C3 witness: a call whose first attempt failed after its request was
\* transmitted has reconnected, retransmitted and returned the reply
C3_Witness ==
    \E c \in Calls :
        /\ rc_reconn[c] = 1
        /\ Len(rc_sent[c]) = 2
        /\ rc_res[c].kind = "ok"

\* C4: whenever send ends with an exception the socket is closed (socket
\* is None, context terminated) at the moment the exception reaches the
\* caller; the deadline gives SaltReqTimeoutError, any other error is
\* re-raised unchanged
C4_ClosedOnException ==
    [][\A c \in Calls :
          (rc_pc[c] # "done" /\ rc_pc'[c] = "done" /\ rc_res'[c].kind # "ok")
          => /\ rc_socket' = None
             /\ rc_context' = None
             /\ rc_open' = {}
             /\ rc_live' = {}
             /\ rc_pc[c] = "tmo" => rc_res'[c].kind = "SaltReqTimeoutError"
             /\ rc_pc[c] = "exc" => rc_res'[c].kind = rc_err[c]]_vars

\* C5: a send that starts after a send has raised the timeout error leaves
\* its prologue with an open, connected socket and the closing flag reset;
\* when it finds no socket it creates a fresh one; it never shares a socket
\* with the timed-out call and, when it returns, returns its own reply
C5_SendAfterTimeout ==
    [][\A c \in Calls :
          /\ (rc_pc[c] = "idle" /\ rc_pc'[c] = "acq" /\ TimedOutCalls # {})
             => /\ rc_socket' # None
                /\ rc_socket' \in rc_open'
                /\ rc_context' \in rc_live'
                /\ ~rc_closing'
                /\ rc_socket = None =>
                      /\ rc_socket' = rc_nsock + 1
                      /\ rc_fsm'[rc_socket'] = "idle"
                      /\ rc_wreq'[rc_socket'] = <<>>
                      /\ rc_wrep'[rc_socket'] = <<>>
          /\ \A d \in rc_prior'[c] :
                /\ SocketsOf(c)' \cap SocketsOf(d)' = {}
                /\ rc_res'[c].kind = "ok" =>
                      /\ rc_res'[c].val = Handler(Load(c))
                      /\ rc_res'[c].val # Handler(Load(d))]_vars

\* C5 witness: a call started after the timeout error of a call whose
\* request was on the wire, and has returned a reply
C5_Witness ==
    \E c, d \in Calls :
        /\ d \in rc_prior[c]
        /\ rc_sent[d] # <<>>
        /\ rc_res[c].kind = "ok"

(***************************************************************************)
(* Properties of close                                                     *)
(***************************************************************************)
\* PublishClient.close and RequestClient.close are guarded by _closing: a
\* close that follows a close issues no library call and changes nothing
GuardedCloseTwice ==
    /\ PCCloseOps(PCClose(sub)) = <<>>
    /\ PCClose(PCClose(sub)) = PCClose(sub)
    /\ RCClose(RCClose(RCState)) = RCClose(RCState)

\* C6: close is idempotent: the second of two consecutive close calls on an
\* object changes nothing, it closes, terminates or destroys no socket and
\* no context a second time
C6_CloseIdempotent ==
    \A o \in Objects : closelog[o].n >= 2 => closelog[o].ops = <<>>

(***************************************************************************)
(* Properties of PublishClient                                             *)
(***************************************************************************)
\* an endpoint argument was supplied
Supplied(v) == v # PyNone

\* exactly one endpoint variant: path alone, or host with port and no path
OneEndpoint(host, port, path) ==
    \/ Supplied(path) /\ ~Supplied(host) /\ ~Supplied(port)
    \/ Supplied(host) /\ Supplied(port) /\ ~Supplied(path)

\* C7: the construction of a PublishClient succeeds if and only if exactly
\* one endpoint variant is supplied; both, none and an incomplete TCP
\* endpoint raise
C7_EndpointXor ==
    sub.obj # "none" =>
        (sub.obj = "built" <=> OneEndpoint(sub.host, sub.port, sub.path))

\* C8: _decode_messages on a list: 1 frame gives the decoded frame; 2 frames
\* give the decoded payload iff the topic is broadcast or the own topic hash
\* (syndic role: broadcast or syndic) and nothing otherwise; any other frame
\* count raises a protocol error that reports the count
C8_DecodeByFrameCount ==
    (sub_decoded.called /\ sub_decoded.messages.list) =>
        LET m == sub_decoded.messages.frames
            out == sub_decoded.out
            topics == IF sub.role = "syndic"
                      THEN {b_broadcast, b_syndic}
                      ELSE {b_broadcast, to_bytes(sub.hexid)}
        IN  /\ Len(m) = 1 => out = Decoded(loads(m[1]))
            /\ Len(m) = 2 =>
                  out = IF m[1] \in topics
                        THEN Decoded(loads(m[2]))
                        ELSE DecodedNone
            /\ Len(m) \notin {1, 2} =>
                  out = DecodeRaises("Exception", Len(m))

(***************************************************************************)
(* Properties of PublishServer and of the publish pipeline                 *)
(***************************************************************************)
RECURSIVE TargetedMessages(_, _)
\* one [hex SHA-1 of topic, payload] per topic of the list, in list order
TargetedMessages(topics, payload) ==
    IF topics = <<>>
    THEN <<>>
    ELSE <<<<to_bytes(sha1_hexdigest(to_bytes(Head(topics)))), payload>>>>
         \o TargetedMessages(Tail(topics), payload)

SyndicMessage(payload) ==
    IF ps_opts.order_masters THEN <<<<b_syndic, payload>>>> ELSE <<>>

\* a is the beginning of b
IsPrefixSeq(a, b) == Len(a) <= Len(b) /\ SubSeq(b, 1, Len(a)) = a

\* the invocation I of publish_payload has emitted what (the beginning of
\* what, while it runs or when a send failed) the sequence exp is, and
\* these are the last messages on the fan-out socket
Emits(I, exp) ==
    /\ I.status = "ok" => I.out = exp
    /\ I.status \in {"run", "err"} => IsPrefixSeq(I.out, exp) /\ I.out # exp
    /\ Len(I.out) <= Len(ps_emitted)
    /\ SubSeq(ps_emitted, Len(ps_emitted) - Len(I.out) + 1, Len(ps_emitted))
          = I.out

\* C9: publish_payload(payload, topic_list) emits exactly: without
\* filtering the single frame payload; with filtering and no topic list
\* [broadcast, payload]; with filtering and a topic list one [hex SHA-1 of
\* topic, payload] per topic in list order, then [syndic, payload] iff
\* order_masters is set
C9_EmittedSequence ==
    pp.status # "idle" =>
        Emits(pp,
              IF ~ps_opts.zmq_filtering
              THEN <<<<pp.payload>>>>
              ELSE IF ~pp.topic_list.given
              THEN <<<<b_broadcast, pp.payload>>>>
              ELSE TargetedMessages(pp.topic_list.topics, pp.payload)
                   \o SyndicMessage(pp.payload))

\* C9 as the code has it: the targeted sequence is emitted for a topic list
\* that is not empty; an empty topic list is treated like an absent one
C9_EmittedSequenceNonEmptyList ==
    pp.status # "idle" =>
        Emits(pp,
              IF ~ps_opts.zmq_filtering
              THEN <<<<pp.payload>>>>
              ELSE IF ~pp.topic_list.given \/ pp.topic_list.topics = <<>>
              THEN <<<<b_broadcast, pp.payload>>>>
              ELSE TargetedMessages(pp.topic_list.topics, pp.payload)
                   \o SyndicMessage(pp.payload))

\* C9 witness: a targeted publish to two topics with order_masters has
\* completed, and so has (in another run) a publish with an empty list
C9_Witness ==
    /\ pp.status = "ok"
    /\ ps_opts.zmq_filtering
    /\ ps_opts.order_masters
    /\ Len(pp.topic_list.topics) = 2
    /\ Len(pp.out) = 3

RECURSIVE FlatFrames(_)
\* the frames of a sequence of messages, in order
FlatFrames(log) ==
    IF log = <<>> THEN <<>> ELSE Head(log) \o FlatFrames(Tail(log))

RECURSIVE IsSubseq(_, _)
\* a is b with some elements left out
IsSubseq(a, b) ==
    IF a = <<>> THEN TRUE
    ELSE IF b = <<>> THEN FALSE
    ELSE IF Head(a) = Head(b) THEN IsSubseq(Tail(a), Tail(b))
    ELSE IsSubseq(a, Tail(b))

\* filtering is disabled on the publisher and on the subscriber
Unfiltered == ~ps_opts.zmq_filtering /\ ~sub.zmq_filtering
\* the payloads the producer has published, in order
PublishedPayloads ==
    [i \in 1 .. Len(ps_published) |-> ps_published[i][2]]
\* the frames handed to callbacks, in order
DeliveredFrames ==
    [i \in 1 .. Len(sub_delivered) |-> sub_delivered[i][2]]
\* the frames the consumers have read from the SUB socket, in order
ConsumedFrames ==
    SubSeq(FlatFrames(sub_inlog), 1,
           Len(FlatFrames(sub_inlog)) - Len(sub_queue))
NonEmpty(frame) == frame # EmptyBytes

\* without filtering, what reaches the subscriber are the published
\* payloads, each a message of one frame, in the order of the publishes and
\* at most once per publish
ForwardedAsPublished ==
    /\ \A i \in 1 .. Len(sub_inlog) : Len(sub_inlog[i]) = 1
    /\ IsSubseq(FlatFrames(sub_inlog), PublishedPayloads)
    /\ Len(sub_queue) <= Len(FlatFrames(sub_inlog))

\* C10: without filtering on either side, every payload the daemon
\* forwards to a connected subscriber is handed to an on_recv callback as
\* exactly its bytes, once per publish, nothing added, removed or split
C10_ExactDelivery ==
    Unfiltered =>
        /\ ForwardedAsPublished
        /\ DeliveredFrames = ConsumedFrames

\* C10 as the code has it: this holds of the payloads that are not empty;
\* consume drops an empty payload (`if msg:`)
C10_ExactDeliveryNonEmpty ==
    Unfiltered =>
        /\ ForwardedAsPublished
        /\ DeliveredFrames = SelectSeq(ConsumedFrames, NonEmpty)

\* C10 witness: two published payloads were forwarded to the subscriber and
\* read by a consumer, one handed to the callback and an empty one dropped
C10_Witness ==
    /\ Unfiltered
    /\ Len(sub_inlog) = 2
    /\ sub_queue = <<>>
    /\ Len(sub_delivered) = 1
    /\ EmptyBytes \in {sub_inlog[i][1] : i \in 1 .. Len(sub_inlog)}

(***************************************************************************)
(* Properties of filtered delivery                                         *)
(***************************************************************************)
\* the first frames a filtered subscriber of role minion is subscribed to
OwnTopics == {b_broadcast, to_bytes(sub.hexid)}

\* what the callbacks were handed are the frames the consumers have read
\* from the SUB socket, the empty ones apart
DeliveredAsConsumed == DeliveredFrames = SelectSeq(ConsumedFrames, NonEmpty)

\* C11: in filtered mode a subscriber whose role is not syndic is handed no
\* frame of a message whose topic is neither broadcast nor its own topic
\* hash: its socket takes no such message, and its callbacks are handed
\* frames of the messages the socket took only
C11_ForeignTopicNotDelivered ==
    (sub.zmq_filtering /\ sub.role # "syndic") =>
        /\ \A i \in 1 .. Len(sub_inlog) : sub_inlog[i][1] \in OwnTopics
        /\ IsSubseq(sub_inlog, ps_emitted)
        /\ DeliveredAsConsumed

\* C11 witness: a filtered minion, connected, was handed frames while the
\* publisher has emitted a message for another minion and the syndic one
C11_Witness ==
    /\ sub.zmq_filtering /\ sub.role # "syndic" /\ sub.connected
    /\ ps_opts.zmq_filtering
    /\ sub_delivered # <<>>
    /\ \E i \in 1 .. Len(ps_emitted) : ps_emitted[i][1] = Htopic("m2")
    /\ \E i \in 1 .. Len(ps_emitted) : ps_emitted[i][1] = b_syndic
    /\ Len(sub_inlog) < Len(ps_emitted)

\* filtering is enabled on the publisher and on the subscriber
Filtered == ps_opts.zmq_filtering /\ sub.zmq_filtering

\* C12: in filtered mode a payload published without a topic list reaches
\* the connected subscriber as the message [broadcast, payload], and the
\* subscriber obtains one delivery from each such message, the payload: no
\* topic frame is handed to a callback as a message of its own
C12_BroadcastDeliveredOnce ==
    Filtered =>
        /\ \A i \in 1 .. Len(sub_inlog) :
               /\ Len(sub_inlog[i]) = 2
               /\ sub_inlog[i][1] = b_broadcast
        /\ \A i \in 1 .. Len(sub_delivered) :
               sub_delivered[i][2] \in Payloads
        /\ Len(sub_delivered) <= Len(sub_inlog)

\* the subscriber is a filtered syndic
FilteredSyndic == sub.zmq_filtering /\ sub.role = "syndic"

\* the subscriptions of a filtered subscriber, by role; a filtered syndic
\* takes no message whose topic is its own hash, and its decoder rejects
\* that topic; a targeted publish with order_masters ends with the syndic
\* message
SubscribedByRole ==
    /\ sub.zmq_filtering =>
          sub.subscribed = IF sub.role = "syndic"
                           THEN {b_broadcast, b_syndic}
                           ELSE {b_broadcast, to_bytes(sub.hexid)}
    /\ FilteredSyndic =>
          /\ \A i \in 1 .. Len(sub_inlog) :
                 sub_inlog[i][1] # to_bytes(sub.hexid)
          /\ ~TargetAccepted(sub, sub.hexid)
          /\ TargetAccepted(sub, "syndic")
    /\ ( /\ pp.status = "ok"
         /\ ps_opts.zmq_filtering /\ ps_opts.order_masters
         /\ TopicListTruthy(pp.topic_list) ) =>
          pp.out[Len(pp.out)] = <<b_syndic, pp.payload>>

\* the send of a syndic message puts it into the socket of a connected
\* filtered syndic
SyndicMessageTaken ==
    ( /\ FilteredSyndic /\ sub.connected /\ sub.socket = "open"
      /\ ps_emitted' = Append(ps_emitted, <<b_syndic, pp.payload>>) ) =>
        sub_inlog' = Append(sub_inlog, <<b_syndic, pp.payload>>)

\* C13: in filtered mode a syndic is subscribed to exactly broadcast and
\* syndic, any other role to exactly broadcast and its own topic hash; a
\* targeted publish with order_masters reaches the syndic subscriber
\* through the syndic message, and a message whose topic is the own hash of
\* the syndic is not accepted by it
C13_SyndicSubscriptions == []SubscribedByRole /\ [][SyndicMessageTaken]_vars

\* C13 witness: a targeted publish for the identity of a filtered syndic,
\* with order_masters, has completed: the socket of the syndic has taken
\* the syndic message and nothing else
C13_Witness ==
    /\ FilteredSyndic /\ sub.connected
    /\ pp.status = "ok"
    /\ \E i \in 1 .. Len(ps_emitted) :
          ps_emitted[i] = <<to_bytes(sub.hexid), pp.payload>>
    /\ sub_inlog = << <<b_syndic, pp.payload>> >>

(***************************************************************************)
(* Properties of the consumer tasks                                        *)
(***************************************************************************)
\* the consumer task has been spawned and has not ended
Alive(c) == c.state \in {"spawned", "recv", "cb"}

\* the consumers the registry refers to
Registered(S) == {S.callbacks[cb] : cb \in Callbacks} \ {None}

\* C14: on_recv(None) cancels every running consumer task and drops all
\* registrations: after the call the registry is empty and the run flag of
\* every consumer task that has not ended is cleared, so that each of them
\* stops at its next loop head
C14_OnRecvNoneCancelsAll ==
    [][OnRecvNone =>
          /\ Registered(sub') = {}
          /\ \A k \in ConsIds : Alive(cons[k]) => ~cons'[k].running]_vars

\* a callback exception is logged and the consumer is back at its loop
\* head: it waits for the next message unless its flag was cleared or the
\* socket closed meanwhile; a receive error ends the consumer it was raised
\* in; either way no other consumer, no flag and no registration changes
ConsumerErrorsContained ==
    \A k \in ConsIds :
        /\ ConsCbRaise(k) =>
              /\ cons'[k].state = IF cons[k].running /\ sub.socket = "open"
                                  THEN "recv" ELSE "done"
              /\ cons'[k].logged = cons[k].logged + 1
              /\ cons'[k].running = cons[k].running
              /\ \A j \in ConsIds \ {k} : cons'[j] = cons[j]
              /\ sub' = sub
        /\ ConsRecvErr(k) =>
              /\ cons'[k].state = "done"
              /\ \A j \in ConsIds \ {k} : cons'[j] = cons[j]
              /\ sub' = sub

\* C15: in a consumer task an exception raised by the callback is swallowed
\* and the consumer goes on to receive and deliver the following messages
\* (every frame read from the socket is handed to a callback, whatever the
\* callbacks raised before); a transport error on receive ends that one
\* consumer and leaves the other consumers, their run flags and the
\* registry untouched
C15_ConsumerErrors ==
    []DeliveredAsConsumed /\ [][ConsumerErrorsContained]_vars

\* C15 witness: consumer 1 has ended on a receive error (its flag is still
\* set and the socket open); consumer 2, still registered, has logged an
\* exception of its callback and has been handed the next message
C15_Witness ==
    /\ cons[1].state = "done" /\ cons[1].running /\ sub.socket = "open"
    /\ cons[2].logged = 1 /\ cons[2].state = "cb" /\ cons[2].running
    /\ sub.callbacks[cons[2].cb] = 2
    /\ Len(sub_delivered) = 2
    /\ \A i \in 1 .. 2 : sub_delivered[i][1] = cons[2].cb
    /\ cons[1].cb # cons[2].cb

(***************************************************************************)
(* Properties of PublishClient.recv                                        *)
(***************************************************************************)
\* C16: recv(timeout): with timeout 0 it never waits, and it returns a
\* message if and only if one was ready at the call; with a positive
\* timeout it returns a message or, the deadline elapsed, nothing; with no
\* timeout it returns only with a message
C16_RecvByTimeout ==
    /\ (rv.state # "idle" /\ rv.timeout = "0") =>
          /\ rv.state = "ret"
          /\ ~rv.waited
          /\ rv.out # RecvNone <=> rv.ready
    /\ (rv.state = "ret" /\ rv.timeout = "0.5") =>
          \/ rv.out \in SerPayloads
          \/ rv.out = RecvNone /\ rv.waited
    /\ (rv.state = "ret" /\ rv.timeout = PyNone) =>
          rv.out \in SerPayloads

(***************************************************************************)
(* Properties of RequestServer                                             *)
(***************************************************************************)
\* the lifetime of the broker: unbound 0, bound 1, serving 2, closing 3,
\* terminated 4
BrokerPhase(B) ==
    IF B.pc = "exited" THEN 4
    ELSE IF B.closing \/ B.frames # <<>> \/ B.pc = "term" THEN 3
    ELSE IF B.pc \in {"loop", "device"} THEN 2
    ELSE IF B.pc = "bound" THEN 1
    ELSE 0

\* the process has ended with code 0 and no socket open, and it is not
\* blocked for ever in context.term() on a socket left open
CleanShutdown ==
    /\ brk.pc = "exited" =>
          /\ brk.exit = EX_OK
          /\ ~SockOpen(brk.clients) /\ ~SockOpen(brk.workers)
    /\ ~ ( /\ brk.pc = "term" /\ brk.frames = <<>>
           /\ SockOpen(brk.clients) \/ SockOpen(brk.workers) )

\* C18: the broker goes through unbound, bound, serving, closing and
\* terminated without going backwards; a SIGINT or SIGTERM in any of these
\* states leads to the sockets (if created) closed, the device loop left and
\* the exit code 0, and a second signal during the shutdown changes nothing
C18_BrokerShutdown ==
    []CleanShutdown /\ [][BrokerPhase(brk') >= BrokerPhase(brk)]_vars

\* the payloads the requests of client c carry
SentBy(c) == {dev.sent[c][i] : i \in 1 .. Len(dev.sent[c])}

\* msg is a request as the ROUTER socket received it from one client:
\* the identity of the connection, the delimiter, a payload of that client
FromClient(msg) ==
    /\ Len(msg) = 3
    /\ \E c \in RSClients : msg[1] = IdFrame(c) /\ msg[3] \in SentBy(c)
    /\ msg[2] = Delimiter

\* the reply the worker code gives to the request payload req
ReplyTo(req) ==
    IF Deserializable(req) THEN ServerReply(req) ELSE dumps(BadLoad)

\* every message on its way to a worker is a request as the ROUTER socket
\* received it; every reply on its way back carries the identity of the
\* client whose request it answers; every reply a client has received
\* answers a request of that client, and no client has received more
\* replies than it sent requests
RoutedToOriginator ==
    /\ \A i \in 1 .. Len(dev.router_in) : FromClient(dev.router_in[i])
    /\ \A w \in RSWorkers : \A i \in 1 .. Len(dev.dealer_out[w]) :
          FromClient(dev.dealer_out[w][i])
    /\ \A i \in 1 .. Len(dev.dealer_in) :
          \E c \in RSClients :
             /\ dev.dealer_in[i][1] = IdFrame(c)
             /\ \E req \in SentBy(c) : dev.dealer_in[i][3] = ReplyTo(req)
    /\ \A c \in RSClients :
          /\ Len(dev.client_in[c]) <= Len(dev.sent[c])
          /\ \A i \in 1 .. Len(dev.client_in[c]) :
                /\ dev.client_in[c][i][1] = Delimiter
                /\ \E req \in SentBy(c) :
                      dev.client_in[c][i][2] = ReplyTo(req)

\* a step of the device towards the workers appends to the queue of one
\* worker the very message it takes from the ROUTER socket
ForwardedVerbatim ==
    (dev'.router_in # dev.router_in /\ dev'.nreq = dev.nreq) =>
        /\ dev'.router_in = Tail(dev.router_in)
        /\ \E w \in RSWorkers :
              /\ dev'.dealer_out[w] =
                    Append(dev.dealer_out[w], Head(dev.router_in))
              /\ \A v \in RSWorkers \ {w} :
                    dev'.dealer_out[v] = dev.dealer_out[v]

\* C17: every client message the device takes from the router socket is
\* forwarded verbatim to the dealer socket, every worker message it takes
\* from the dealer socket is routed to the client that sent the request,
\* named by the routing prefix the router inserted, and no reply reaches a
\* client that did not send that request
C17_BrokerRouting == []RoutedToOriginator /\ [][ForwardedVerbatim]_vars

\* C17 witness: both clients have received the reply to their request,
\* the requests having been served in the other order than they were sent
C17_Witness ==
    /\ \A c \in RSClients : Len(dev.client_in[c]) = 1
    /\ dev.sent[1] = <<dumps(Load(1))>>
    /\ dev.sent[2] = <<dumps(Load(2))>>
    /\ Len(rs_log.handled) = 2
    /\ rs_log.handled[1][2] = Load(2)

\* C19: the request loop of a worker never dies on a payload exception:
\* after the handler or the send of a reply has raised for one request the
\* loop goes on, and a request that arrives afterwards is still received:
\* as long as close has not been called the worker is in its loop, and at
\* the head of the loop and in its receive the socket can give it the next
\* request
C19_LoopSurvives ==
    \A w \in RSWorkers :
        /\ wrk[w].pc = "done" => wrk[w].event
        /\ ( /\ wrk[w].pc \in {"head", "recv"}
             /\ ~wrk[w].event /\ wrk[w].sock = "open" ) =>
              wrk[w].fsm = "recv"

\* what handle_message does with a request that cannot be decoded, and
\* what the send that follows puts on the socket (in a step of the worker
\* other than a call of close)
BadLoadAnswered ==
    \A w \in RSWorkers :
        ( /\ ~Deserializable(wrk[w].request)
          /\ wrk'[w] # wrk[w] /\ ~wrk'[w].closing ) =>
            /\ wrk[w].pc = "handle" =>
                  /\ wrk'[w].pc = "send" /\ wrk'[w].reply = BadLoad
                  /\ rs_log' = rs_log
            /\ (wrk[w].pc = "send" /\ wrk'[w].fsm = "recv") =>
                  /\ dev'.dealer_in =
                        Append(dev.dealer_in,
                               wrk[w].envelope \o <<dumps(BadLoad)>>)
                  /\ wrk'[w].pc = "head"
            /\ wrk'[w].sock = "open"

\* the handler was never called with a payload that cannot be decoded
HandlerSawNoJunk ==
    \A i \in 1 .. Len(rs_log.handled) : rs_log.handled[i][2] # loads(Junk)

\* C20: for a request whose payload cannot be deserialized the message
\* handler is not invoked, the reply sent is {msg: bad load}, the reply
\* socket stays open and the worker goes on to serve the next request
C20_BadLoadReply == []HandlerSawNoJunk /\ [][BadLoadAnswered]_vars

\* C20 witness: worker w1, alone, has answered a request that cannot be
\* decoded with bad load, and has then handled and answered the next
\* request; both replies have reached the clients
C20_Witness ==
    /\ wrk["w2"].pc = "new"
    /\ dev.sent[1] = <<Junk>>
    /\ dev.client_in[1] = << <<Delimiter, dumps(BadLoad)>> >>
    /\ dev.sent[2] = <<dumps(Load(2))>>
    /\ dev.client_in[2] = << <<Delimiter, ServerReply(dumps(Load(2)))>> >>
    /\ rs_log.handled = << <<"w1", Load(2)>> >>
    /\ wrk["w1"].sock = "open"

\* a worker on which close has returned, called after post_fork
ClosedWorker(W) == W.closing /\ W.closed_from # "new"

\* what close leaves behind on a worker
WorkerReleased ==
    \A w \in RSWorkers :
        ClosedWorker(wrk[w]) =>
            /\ wrk[w].event
            /\ wrk[w].sock = "closed"
            /\ wrk[w].context = "term"

\* a closed worker takes no request from its socket and calls no handler
WorkerQuiet ==
    \A w \in RSWorkers :
        ClosedWorker(wrk[w]) =>
            /\ dev'.dealer_out[w] = dev.dealer_out[w]
            /\ wrk'[w].request = wrk[w].request
            /\ rs_log'.handled = rs_log.handled \/ wrk'[w] = wrk[w]
            /\ wrk'[w].pc \notin {"recv", "handle", "send"}

\* C21: after close has returned on a worker the event is set, the reply
\* socket closed and the context terminated, no request is received or
\* handled afterwards, and the request-handling task eventually
\* terminates; also when close came after post_fork and before the
\* callback that creates the task
C21_WorkerClose ==
    /\ []WorkerReleased
    /\ [][WorkerQuiet]_vars
    /\ \A w \in RSWorkers :
          ClosedWorker(wrk[w]) ~> (wrk[w].pc = "done")

\* C21 witness: close came between post_fork and the callback, a request
\* was waiting on the device, and the task that the callback created has
\* finished without receiving it
C21_Witness ==
    \E w \in RSWorkers :
        /\ wrk[w].closed_from = "posted"
        /\ wrk[w].pc = "done"
        /\ dev.dealer_out[w] # <<>>
        /\ rs_log.handled = <<>>

\* nothing is received from the pull socket before the flag is set
ReceivedAfterStarted == ps_pulled # <<>> => dmn.started

\* a step of the daemon sets the flag only with both sockets bound and
\* nothing received yet, never sets it once the publisher has gone past
\* its binds without setting it, and never clears it
StartedStep ==
    /\ (~dmn.started /\ dmn'.started) =>
          /\ dmn.state = "new"
          /\ dmn'.pub = "bound" /\ dmn'.pull = "bound"
          /\ ps_pulled' = <<>>
    /\ (~dmn.started /\ dmn.state # "new") => ~dmn'.started
    /\ dmn.started => dmn'.started

\* C22: the started flag of the publisher daemon is set only after the
\* fan-out socket and the pull socket are both bound and before the first
\* payload is received; it is never set when a bind fails, and the daemon
\* never clears it
C22_StartedFlag == []ReceivedAfterStarted /\ [][StartedStep]_vars

\* C22 witness: the flag is set, payloads have been received, and the
\* daemon has been closed since
C22_Witness ==
    /\ dmn.started /\ dmn.state = "stopped"
    /\ Len(ps_pulled) >= 2
    /\ dmn.pub = "closed" /\ dmn.pull = "closed"

\* the daemon is in the loop of publisher
DaemonLoops == dmn.state \in {"loop", "pp"}

\* a step in which a send raises: the exception is logged and the daemon
\* is back in its loop, its sockets as they were; a step that receives a
\* package hands it to publish_payload
ForwardErrorLogged ==
    /\ (dmn.state = "pp" /\ pp'.status = "err") =>
          /\ ps_logged' = ps_logged + 1
          /\ dmn' = [dmn EXCEPT !.state = "loop"]
    /\ Len(ps_pulled') > Len(ps_pulled) =>
          /\ pp'.status = "run"
          /\ pp'.payload = ps_pulled'[Len(ps_pulled')]

\* C23: in the main loop of the publisher daemon an error raised while
\* forwarding one payload is logged and the loop continues: a payload that
\* waits on the pull socket after an error has been logged is received
\* and handed to publish_payload, as long as the daemon is not closed
C23_PublisherLoopContinues ==
    /\ [][ForwardErrorLogged]_vars
    /\ \A i \in PushIds, n \in 0 .. MaxPublish :
          (ps_logged > 0 /\ DaemonLoops /\ pipe[i] # <<>>
             /\ Len(ps_pulled) = n)
          ~> (Len(ps_pulled) > n \/ ~DaemonLoops)

\* C23 witness: an error was logged for one payload, and a payload that
\* was received afterwards has been forwarded completely
C23_Witness ==
    /\ ps_logged > 0
    /\ pp.status = "ok"
    /\ Len(ps_pulled) >= 2
    /\ ps_emitted # <<>>

\* the payloads of the messages sent on the fan-out socket, in order
EmittedPayloads ==
    [i \in 1 .. Len(ps_emitted) |-> ps_emitted[i][Len(ps_emitted[i])]]

\* every payload was published on the same push socket
OneSocket ==
    \A j, k \in 1 .. Len(ps_published) :
        ps_published[j][1] = ps_published[k][1]

\* the payloads a failed send has left out apart, the fan-out socket has
\* carried what the daemon has pulled, in that order, each payload once
EmittedOnce ==
    /\ IsSubseq(EmittedPayloads, ps_pulled)
    /\ Len(ps_emitted) + ps_logged + (IF pp.status = "run" THEN 1 ELSE 0)
          = Len(ps_pulled)

\* the next package is taken from the pull socket when publish_payload
\* has ended for the last one
OneAtATime == Len(ps_pulled') > Len(ps_pulled) => pp.status # "run"

\* C24: the payloads a single producer publishes in the order p1, p2, ...
\* are emitted on the fan-out socket in that order, each one fully
\* emitted before the next is taken from the pull socket, and each
\* forwarded payload once
C24_ProducerFifo ==
    /\ [](IsPrefixSeq(ps_pulled, PublishedPayloads) /\ EmittedOnce)
    /\ [][OneAtATime]_vars

\* C24 as the code has it: the order is that of the publishes for
\* payloads published on one push socket; a producer that has called
\* connect or close between two publishes has sent them on two sockets,
\* and the pull socket takes from its connections in any order
C24_SocketFifo ==
    /\ []((OneSocket => IsPrefixSeq(ps_pulled, PublishedPayloads))
             /\ EmittedOnce)
    /\ [][OneAtATime]_vars

\* C24 witness: two different payloads published on one socket have both
\* been emitted, in the order of the publishes
C24_Witness ==
    /\ Len(ps_published) = 2 /\ OneSocket
    /\ ps_published[1][2] # ps_published[2][2]
    /\ EmittedPayloads = PublishedPayloads

\* the lifetime of a monitor: 0 idle, 1 running, 2 stopped
MonPhase(M) == IF ~M.socket THEN 2 ELSE IF M.mode = "none" THEN 0 ELSE 1

\* the terminal event has been processed
TerminalSeen(M) ==
    \E i \in 1 .. Len(M.processed) : M.processed[i] = EVENT_MONITOR_STOPPED

\* a stopped monitor has its run flag cleared and holds neither socket
MonStopped == MonPhase(mon) = 2 => ~mon.running /\ ~mon.monitor_socket

\* a step of the monitor: the lifetime never goes back; processing the
\* terminal event stops the monitor; no event is processed after it; and
\* stop on a stopped monitor changes nothing
MonStep ==
    /\ MonPhase(mon') >= MonPhase(mon)
    /\ (~TerminalSeen(mon) /\ TerminalSeen(mon')) => MonPhase(mon') = 2
    /\ TerminalSeen(mon) => mon'.processed = mon.processed
    /\ (MonPhase(mon) = 2 /\ mon'.stops > mon.stops) =>
          mon' = [mon EXCEPT !.stops = @ + 1]

\* C25: the monitor goes from idle to running to stopped and never back;
\* when it processes the terminal MONITOR_STOPPED event it stops itself
\* (run flag cleared, event socket released, parent reference dropped),
\* processes no event afterwards, and its loop terminates; stop on a
\* stopped monitor is a no-op
C25_MonitorLifetime ==
    /\ []MonStopped
    /\ [][MonStep]_vars
    /\ TerminalSeen(mon) ~> (mon.pc = "done")

\* C25 witness: the monitor has processed an event and then the terminal
\* event, its loop has ended, and stop was called on it afterwards
C25_Witness ==
    /\ Len(mon.processed) = 2 /\ TerminalSeen(mon)
    /\ mon.pc = "done"
    /\ mon.stops > 0
    /\ mon.events = <<>>

\* an address as it stands in a URI: an IPv6 literal in brackets
InUri(addr) ==
    IF IpVersion(addr) = 6 THEN <<"[", addr, "]">> ELSE <<addr>>

\* the URI that the last call has to return, when ip_given and port_given
\* say which source components count as given
ExpectedUri(ip_given, port_given) ==
    LET dst == InUri(uri.master_ip) \o <<":", uri.master_port>>
        src_ip == IF ip_given THEN InUri(uri.source_ip)
                  ELSE IF IpVersion(uri.master_ip) = 4 THEN <<"0.0.0.0">>
                  ELSE <<"[", "::", "]">>
        src_port == IF port_given THEN uri.source_port ELSE "0"
    IN  IF (ip_given \/ port_given) /\ SourceSyntax(uri.libzmq, uri.pyzmq)
        THEN <<"tcp://">> \o src_ip \o <<":", src_port, ";">> \o dst
        ELSE <<"tcp://">> \o dst

\* C26: _get_master_uri returns tcp://dst when both source components are
\* absent; otherwise tcp://src;dst if and only if the library supports
\* the source-bind syntax, with source port 0 when only source_ip is
\* given and the wildcard address of the destination's family when only
\* source_port is given, and tcp://dst when the library is too old; IPv6
\* literals are in brackets, IPv4 addresses are not
C26_MasterUri ==
    uri.called =>
        uri.result = ExpectedUri(uri.source_ip # PyNone,
                                 uri.source_port # PyNone)

\* C26 as the code has it: a source component counts as given when its
\* value is true in Python; an empty source_ip and a source_port of 0 are
\* absent ones
C26_MasterUriTruthy ==
    uri.called =>
        uri.result = ExpectedUri(Truthy(uri.source_ip),
                                 Truthy(uri.source_port))

\* C26 witness: only source_port given, an IPv6 destination, a library
\* that supports the syntax
C26_Witness ==
    /\ uri.called
    /\ uri.source_ip = PyNone /\ uri.source_port = "5000"
    /\ uri.master_ip = "::1"
    /\ uri.result = <<"tcp://", "[", "::", "]", ":", "5000", ";",
                      "[", "::1", "]", ":", "4506">>

\* C27: connect closes the socket the producer already has before it
\* creates the new one, so that after any sequence of connect, publish
\* and close the producer owns at most one open push socket and every
\* open push socket is the one it refers to
C27_OneProducerSocket ==
    /\ Cardinality(push.open) <= 1
    /\ push.open \subseteq {prod.sock}

\* both sockets of the broker exist and are not closed
BothOpen(B) == SockOpen(B.clients) /\ SockOpen(B.workers)

\* the queue device runs on open sockets only (with a signal handler on
\* top of it the device is interrupted, not running)
DeviceOnOpenSockets ==
    (brk.pc = "device" /\ brk.frames = <<>>) => BothOpen(brk)

\* a step of the device loop: its head starts the device exactly when
\* both sockets are open; the device is left towards the head of the loop
\* (EINTR), out of zmq_device with the error (any other error of the
\* library) or, by the exit a signal handler raises, to context.term();
\* and zmq_device returns from context.term() with the context terminated
DeviceLoopStep ==
    /\ (brk.pc \in {"bound", "loop"} /\ brk'.pc \in {"device", "term"}) =>
          (brk'.pc = "device" <=> BothOpen(brk))
    /\ (brk.pc = "device" /\ brk'.pc # "device") =>
          \/ /\ brk'.pc = "loop" /\ brk.frames = <<>>
             /\ brk'.exit = NoExit /\ BothOpen(brk')
          \/ /\ brk'.pc = "exited" /\ brk.frames = <<>>
             /\ brk'.exit = EX_UNCAUGHT /\ brk'.context = brk.context
          \/ /\ brk'.pc = "term" /\ brk.frames # <<>>
             /\ brk'.exit = NoExit
    /\ (brk.pc = "term" /\ brk.frames = <<>> /\ brk'.pc = "exited") =>
          brk'.context = "term"

\* C28: in the device loop of the broker EINTR from the queue device makes
\* the loop continue while both sockets are open, any other ZMQ error
\* leaves the loop as an error, a keyboard or system exit breaks the loop,
\* the device is never started or restarted once the router or the dealer
\* socket is closed, and after a break the context is terminated
C28_DeviceLoop == []DeviceOnOpenSockets /\ [][DeviceLoopStep]_vars

\* C28 witness: the device was interrupted and restarted, a signal then
\* broke the loop, and zmq_device has returned with the context terminated
C28_Witness ==
    /\ brk.eintr > 0 /\ brk.signals > 0
    /\ brk.pc = "exited" /\ brk.exit = EX_OK
    /\ brk.context = "term"

\* the consumer task has ended (or was never spawned)
Ended(c) == c.state \in {"free", "done", "cancelled"}

\* what close leaves behind on a PublishClient
SubscriberReleased ==
    sub.closing =>
        /\ sub.socket = "closed" /\ sub.context = "term"
        /\ ~sub.monitor /\ ~sub.mon_running

\* the step of close clears the run flag of every registered consumer and
\* empties the registry, and after close no callback is invoked
SubscriberCloseStep ==
    /\ (~sub.closing /\ sub'.closing) =>
          /\ \A k \in Registered(sub) : ~cons'[k].running
          /\ Registered(sub') = {}
    /\ sub.closing => sub_delivered' = sub_delivered

\* C29: after PublishClient.close the run flags of all registered
\* consumers are cleared, the registry is empty, the monitor stopped, the
\* socket closed and the context terminated; every consumer task
\* eventually terminates, one blocked in receive included, and no callback
\* is invoked after close has returned
C29_SubscriberClose ==
    /\ []SubscriberReleased
    /\ [][SubscriberCloseStep]_vars
    /\ sub.closing ~> (\A k \in ConsIds : Ended(cons[k]))

\* the sockets and contexts the client created and does not refer to
Unreferenced(created, ref) == (1..created) \ {ref}

\* C30: in every reachable state of a RequestClient, under any
\* interleaving of connect, send and close, the client owns at most one
\* open socket and one unterminated context, an open socket implies the
\* closing flag is False, and every socket and context the client created
\* and no longer refers to has been closed or terminated
C30_OnePair ==
    /\ Cardinality(rc_open) <= 1
    /\ Cardinality(rc_live) <= 1
    /\ rc_open # {} => ~rc_closing
    /\ Unreferenced(rc_nsock, rc_socket) \cap rc_open = {}
    /\ Unreferenced(rc_nctx, rc_context) \cap rc_live = {}

\* a second pair is in use after the first was released, while a send call
\* is in progress
C30_Witness ==
    /\ rc_nsock >= 2 /\ rc_nctx >= 2
    /\ rc_socket = rc_nsock /\ rc_socket \in rc_open
    /\ rc_context = rc_nctx /\ rc_context \in rc_live
    /\ \E c \in Calls : rc_pc[c] \notin {"idle", "done"}

\* call c runs line 1180, `await self.socket.send(message)`, in this step:
\* it enters the critical section of _send_recv
IssuesSend(c) ==
    /\ rc_pc[c] \in {"acq", "wait"}
    /\ rc_pc'[c] \in {"recv1", "recv2", "exc"}

\* C31: a RequestClient transmits a request only from the idle state: no
\* send is issued on a socket that is None, nor on a socket with an
\* outstanding request whose reply has not been received, also just after
\* another send call that held the lock was cancelled by its deadline
C31_SendFromIdle ==
    [][\A c \in Calls :
          IssuesSend(c) => (rc_socket # None /\ rc_fsm[rc_socket] = "idle")]_vars

\* the reply to the request of call c has reached the socket its receive
\* is pending on
ReplyArrived(c) ==
    /\ rc_fut[c] = "pending"
    /\ rc_futsock[c] \in rc_open
    /\ rc_wrep[rc_futsock[c]] # <<>>

\* a call whose reply has arrived is given it, unless its own deadline
\* elapses first
ReplyKept(c) ==
    ReplyArrived(c) => (rc_fut'[c] \in {"pending", "ok"} \/ rc_pc'[c] = "tmo")

\* on a reliable transport a call ends with its reply or with its own
\* timeout
OwnOutcome(c) ==
    rc_pc[c] = "done" => rc_res[c].kind \in {"ok", "SaltReqTimeoutError"}

\* C32: with concurrent send calls on one RequestClient the timeout of
\* one call, holding the lock or waiting for it, does not make another
\* call fail: a call whose own deadline has not elapsed and whose request
\* the server answers in time returns that reply
C32_TimeoutIsolated ==
    /\ [](\A c \in Calls : OwnOutcome(c))
    /\ [][\A c \in Calls : ReplyKept(c)]_vars

\* a step of the send call, taken while the client is closed
ClosedInFlight == rc_closing /\ rc_pc[1] # "idle" /\ rc_pc'[1] # rc_pc[1]

\* C33: when close is called on a RequestClient while a send call is in
\* flight, the client stays disconnected after that call has ended: the
\* call does not create and connect a new socket through its retry path,
\* and the closing flag is not reset without a new send or connect call
C33_StaysClosed ==
    [][ClosedInFlight =>
          (rc_closing' /\ rc_socket' = None /\ rc_nsock' = rc_nsock)]_vars

\* consumer k hands a message to its callback in this step
Invokes(k) == cons[k].state # "cb" /\ cons'[k].state = "cb"

\* the run flag of consumer k was cleared: it was in the registry when
\* on_recv(None) ran
Unregistered(k) == cons[k].state # "free" /\ ~cons[k].running

\* C34: after PublishClient.on_recv(None) has returned, no callback that
\* was registered before it is invoked with any message, also not with a
\* message that arrives while a consumer is still suspended in its receive
C34_QuietAfterOnRecvNone ==
    [][\A k \in ConsIds : Unregistered(k) => ~Invokes(k)]_vars

\* C35: every consumer task of a PublishClient that is still running has
\* its run flag in the callback registry, so that on_recv(None) or close
\* stops all of them, after any sequence of on_recv registrations,
\* registering the same callback more than once included
C35_FlagsInRegistry ==
    \A k \in ConsIds :
        (Alive(cons[k]) /\ cons[k].running) => k \in Registered(sub)

\* C36: the reply socket of a worker strictly alternates receive and
\* send: the worker has sent the reply to every request it received before
\* it issues the next receive, whatever the handler did (returned, raised,
\* or the payload could not be deserialized), so that a running worker
\* leaves no request without a reply
C36_ReplyBeforeReceive ==
    \A w \in RSWorkers : wrk[w].pc = "recv" => wrk[w].fsm = "recv"

\* the loop of publisher hands what it pulled to publish_payload with no
\* topic list
PulledWithoutTopics ==
    ps_pulled' # ps_pulled =>
        /\ pp'.status = "run"
        /\ pp'.payload = ps_pulled'[Len(ps_pulled')]
        /\ pp'.topic_list = NoTopicList

\* with filtering, a publish_payload without topic list, or with an empty
\* one, emits the message [broadcast, payload] and is done
BroadcastOnce ==
    ( /\ ps_opts.zmq_filtering
      /\ pp.topic_list \in {NoTopicList, TopicList(<<>>)}
      /\ ps_emitted' # ps_emitted ) =>
        /\ pp.out = <<>>
        /\ ps_emitted' = Append(ps_emitted, <<b_broadcast, pp.payload>>)
        /\ pp'.status = "ok"

\* C37: in the publisher daemon started through pre_fork every payload
\* taken from the pull socket is handed to publish_payload without a topic
\* list; with filtering enabled every payload the daemon forwards is
\* emitted as exactly one [broadcast, payload] message, never as a targeted
\* or syndic message, and an empty topic list is treated like an absent one
C37_DaemonBroadcasts ==
    [][PulledWithoutTopics /\ BroadcastOnce]_vars

\* C37 witness: with filtering and order_masters the daemon has forwarded a
\* pulled payload as one broadcast message, and publish_payload called with
\* an empty topic list has emitted one broadcast message as well
C37_Witness ==
    /\ ps_opts.zmq_filtering /\ ps_opts.order_masters
    /\ Len(ps_pulled) = 1
    /\ pp.topic_list = TopicList(<<>>) /\ pp.status = "ok"
    /\ Len(ps_emitted) = 2
    /\ ps_emitted[1] = <<b_broadcast, ps_pulled[1]>>
    /\ ps_emitted[2] = <<b_broadcast, pp.payload>>
=============================================================================
